---- MODULE Spec2Model ----
(***************************************************************************)
(* Component deployment reconciliation core of tron: the lifecycle         *)
(* orchestrators (webapp, worker, cron), the placement record manager,     *)
(* the manifest deployer and the instance reconciler, over a relational    *)
(* store and a cluster gateway.                                            *)
(*                                                                         *)
(* Spec      : requests run one after another; one action per handler.     *)
(* SpecSync  : sync_instance over every store of up to MaxComponents rows. *)
(* SpecConc  : requests, each in its own store session, interleave at the  *)
(*             points where the code reads or commits the store.           *)
(***************************************************************************)
EXTENDS Integers, FiniteSets, Sequences, TLC

\* ------------------------------------------------------------------ bounds
\* Component rows the store can hold (ids 1..MaxComponents).
MaxComponents == 3

\* Ids the store hands out to creates in one run of Spec.
MaxCreated == 1

\* Requests in flight at once in SpecConc.
MaxRequests == 2

Reqs == 1..MaxRequests

CompIds == 1..MaxComponents

\* Clusters registered for the one environment of the one instance modelled.
Clusters == {"c1", "c2"}

\* Python None for string-valued fields.
NONE == "None"

\* ------------------------------------------------------------ value domains
WebappType == {"webapp", "worker", "cron"}

VisibilityType == {"public", "private", "cluster"}

\* settings.exposure of a persisted settings document.  type = NONE stands for
\* "no exposure key", visibility = NONE for "exposure without visibility".
NoExposure == [type |-> NONE, port |-> 0, visibility |-> NONE]

Exposure(t, p, v) == [type |-> t, port |-> p, visibility |-> v]

\* settings.exposure of a document whose exposure key holds None.
NullExposure == [type |-> "null", port |-> 0, visibility |-> NONE]

\* What a call that raised TypeError hands back.
TypeError == [raised |-> "type_error"]

\* Exposures a WebappSettings payload can carry (type is a free string, the
\* visibility an enum member; the model validator always supplies the key).
WebappExposures ==
    { Exposure(t, 80, v) : t \in {"http", "tcp"}, v \in {"public", "cluster"} }

\* Exposures a worker / cron settings payload can carry.
WorkerExposures ==
    { NoExposure, Exposure("http", 80, NONE), Exposure("http", 80, "public") }

CpuValues == {1}

Settings(cpu, e) == [cpu |-> cpu, exposure |-> e]

WebappSettings == { Settings(c, e) : c \in CpuValues, e \in WebappExposures }

WorkerSettings == { Settings(c, e) : c \in CpuValues, e \in WorkerExposures }

\* url payload values: absent (None), empty string, a real address.
UrlInputs == {NONE, "", "https://a"}

\* Component names, as sequences of characters.
Names == { <<"a">>, <<"b">>, <<>>, <<" ">>, <<"a", " ", "b">>, <<"a", "\t", "b">> }

\* The characters str.strip() removes from the ends of a name.
Whitespace == {" ", "\t", "\n"}

\* ------------------------------------------------------------------- state
VARIABLES
    components,        \* application_components rows, by id
    next_id,           \* the id the store gives the next component row
    cluster_instances, \* cluster_instances rows (PlacementRecords)
    manifests,         \* per cluster, the components whose manifests it holds
    deployed,          \* per component, outcome of its last apply
    last,              \* what the last request did and returned
    requests,          \* SpecConc: where each request in flight stands
    instances,         \* uuids of the instances rows
    environments       \* uuids of the environments rows

vars == <<components, next_id, cluster_instances, manifests, deployed, last,
          requests, instances, environments>>

\* Instance uuids a request can name; the store starts with the first, and
\* every component row belongs to it.
InstanceUuids == {"i1", "i2"}

\* Environment uuids a request can name; the store starts with the first,
\* the environment of instance i1 and of the clusters.
EnvironmentUuids == {"e1", "e2"}

NoRow ==
    [exists |-> FALSE, type |-> NONE, name |-> <<>>, enabled |-> FALSE,
     settings |-> Settings(0, NoExposure), url |-> NONE]

ClusterInstance(cl, c) == [cluster_id |-> cl, application_component_id |-> c]

\* Gateway calls a request issued, and how many of them failed.
NoCalls == [apply |-> 0, delete |-> 0, apply_failed |-> 0, delete_failed |-> 0]

\* --------------------------------------------------------- request payloads
\* WorkerCreate / CronCreate
WorkerCreate ==
    [name : Names, enabled : BOOLEAN, settings : WorkerSettings]

\* WorkerUpdate / CronUpdate: enabled and settings are optional
\* (has_* = FALSE stands for None; the value is then a fixed filler).
WorkerUpdate ==
    { d \in [has_enabled : BOOLEAN, enabled : BOOLEAN,
             has_settings : BOOLEAN, settings : WorkerSettings] :
        /\ (~d.has_enabled => d.enabled = FALSE)
        /\ (~d.has_settings => d.settings = Settings(1, NoExposure)) }

WebappCreate ==
    [name : Names, url : UrlInputs, enabled : BOOLEAN, settings : WebappSettings]

WebappUpdate ==
    { d \in [url : UrlInputs, has_enabled : BOOLEAN, enabled : BOOLEAN,
             has_settings : BOOLEAN, settings : WebappSettings] :
        /\ (~d.has_enabled => d.enabled = FALSE)
        /\ (~d.has_settings => d.settings = Settings(1, Exposure("http", 80, "cluster"))) }

\* ------------------------------------------------------------- the session
\* What one request has committed to the store and done to the clusters so
\* far: ci / mf / dep are the cluster_instances rows, the cluster manifests
\* and the last-apply outcomes; raised is the error it ends with, if any.
\* failed: the components whose placement or apply step threw.
\* selected: the component and answer of each call of the selector (NONE
\* when it raised); targets: the component and cluster of each gateway call;
\* steps: the gateway calls and store deletions in the order they were made;
\* committed: whether the deployer has committed the session; named and
\* wrapped: the cluster and the underlying error in the message of raised.
Session(ci, mf, dep) ==
    [ci |-> ci, mf |-> mf, dep |-> dep, calls |-> NoCalls, failed |-> {},
     selected |-> {}, targets |-> {}, steps |-> <<>>, committed |-> FALSE,
     raised |-> NONE, named |-> NONE, wrapped |-> NONE]

Target(c, cluster) == [comp |-> c, cluster |-> cluster]

\* What a request carried: the fields of an update payload (has_* = FALSE
\* and url = NONE stand for an absent field), whether its url and the
\* exposure it would result in disagree (mismatch), and whether the cluster
\* lacked a capability its settings ask for (unsupported).
NoPayload ==
    [has_enabled |-> FALSE, enabled |-> FALSE, has_settings |-> FALSE,
     settings |-> Settings(0, NoExposure), url |-> NONE]

Request(payload, mismatch, unsupported) ==
    [payload |-> payload, mismatch |-> mismatch, unsupported |-> unsupported,
     missing |-> FALSE, uuid |-> NONE, carried |-> NONE, name |-> <<>>,
     kind |-> NONE]

\* The request names an instance the store does not have.
UnknownInstance(req) == [req EXCEPT !.missing = TRUE]

\* The request is served by the orchestrator of this kind.
Through(req, kind) == [req EXCEPT !.kind = kind]

\* The create request gives the component this name.
NamedBy(req, name) == [req EXCEPT !.name = name]

NoRequest == Request(NoPayload, FALSE, FALSE)

\* The request names the instance or the environment uuid.
Naming(uuid) == [NoRequest EXCEPT !.uuid = uuid]

\* The record of a request: what it was (op, comp, mismatch: whether its url
\* and the exposure it would result in disagree), what it returned and what
\* it sent to the gateway.
Result(op, c, res, s, req) ==
    [op |-> op, comp |-> c, mismatch |-> req.mismatch,
     unsupported |-> req.unsupported, missing |-> req.missing,
     uuid |-> req.uuid, carried |-> req.carried, name |-> req.name,
     kind |-> req.kind,
     payload |-> req.payload, result |-> res,
     apply_calls |-> s.calls.apply, delete_calls |-> s.calls.delete,
     apply_failed |-> s.calls.apply_failed, delete_failed |-> s.calls.delete_failed,
     failed |-> s.failed, selected |-> s.selected, targets |-> s.targets,
     steps |-> s.steps, named |-> s.named, wrapped |-> s.wrapped,
     synced_components |-> 0, total_components |-> 0, errors |-> <<>>]

\* A request in flight (SpecConc): the handler it runs (op), where it stands
\* (pc), the component it works on, what its session holds that it has not
\* committed (pending) and what it has counted so far.  An update keeps the
\* settings of the component it holds in memory, and once done what it
\* returned; wrote_last / applied_last tell whether it is the update whose
\* write of the component row, whose successful apply, came last.
IdleRequest ==
    [pc |-> "idle", op |-> NONE, comp |-> 0, todo |-> {},
     changed |-> FALSE, was_enabled |-> FALSE, will_be_enabled |-> FALSE,
     redeploy |-> FALSE, cluster |-> NONE, pending |-> {},
     calls |-> NoCalls, failed |-> {},
     synced_components |-> 0, total_components |-> 0, errors |-> <<>>,
     settings |-> Settings(0, NoExposure), result |-> NONE,
     wrote_last |-> FALSE, applied_last |-> FALSE]

\* --------------------------------------------------------- placement selector
\* What the selector can answer at the time of a call: the least loaded
\* cluster of the environment (load is read live, so any of them), or NONE
\* when it raises for lack of an eligible cluster.
get_cluster_for_instance == Clusters \cup {NONE}

\* ------------------------------------------------- placement record manager
find_cluster_instance_by_component_id(ci, c) ==
    { r \in ci : r.application_component_id = c }

\* An ensure that builds the record without adding it to the session.
ensure_cluster_instance_unsaved(ci, c, cluster) ==
    LET existing == find_cluster_instance_by_component_id(ci, c) IN
    IF existing # {}
    THEN { [raised |-> NONE, cluster |-> r.cluster_id, pending |-> {}] :
             r \in existing }
    ELSE { [raised |-> NONE, cluster |-> cluster, pending |-> {}] }

\* Outcomes of ensure_cluster_instance: the cluster of the record returned and
\* the record added to the session, not yet committed (pending).
ensure_cluster_instance(ci, c, cluster) ==
    LET existing == find_cluster_instance_by_component_id(ci, c) IN
    IF existing # {}
    THEN { [raised |-> NONE, cluster |-> r.cluster_id, pending |-> {}] :
             r \in existing }
    ELSE { [raised |-> NONE, cluster |-> cluster,
            pending |-> {ClusterInstance(cluster, c)}] }

\* An outcome of get-or-create: selected tells whether the selector was asked.
Placed(raised, cluster, pending, selected) ==
    [raised |-> raised, cluster |-> cluster, pending |-> pending,
     selected |-> selected]

\* A get-or-create that does not look for the existing record first.
get_or_create_without_lookup(ci, c) ==
    UNION { IF cluster = NONE
            THEN { Placed("no_cluster", NONE, {}, TRUE) }
            ELSE { Placed(NONE, cluster, {ClusterInstance(cluster, c)}, TRUE) } :
            cluster \in get_cluster_for_instance }

get_or_create_cluster_instance(ci, c) ==
    LET existing == find_cluster_instance_by_component_id(ci, c) IN
    IF existing # {}
    THEN { Placed(NONE, r.cluster_id, {}, FALSE) : r \in existing }
    ELSE UNION { IF cluster = NONE
                 THEN { Placed("no_cluster", NONE, {}, TRUE) }
                 ELSE { Placed(e.raised, e.cluster, e.pending, TRUE) :
                        e \in ensure_cluster_instance(ci, c, cluster) } :
                 cluster \in get_cluster_for_instance }

\* cluster_instance.cluster, as update and sync read it from the record that
\* get-or-create returned: the Cluster of a record that is a row; for a
\* record the session has added and not flushed (autoflush is off) the
\* relationship was never loaded, and the read yields the Cluster or None.
cluster_instance_cluster(g) ==
    IF g.pending = {} THEN {g.cluster} ELSE {g.cluster, NONE}

\* --------------------------------------------------------- manifest deployer
\* The gateway: a successful apply leaves the component's manifests on the
\* cluster, a successful delete removes them, a failed call changes nothing.
gateway_apply(mf, cluster, c, ok) ==
    IF ok THEN [mf EXCEPT ![cluster] = @ \cup {c}] ELSE mf

gateway_delete(mf, cluster, c, ok) ==
    IF ok THEN [mf EXCEPT ![cluster] = @ \ {c}] ELSE mf

\* A deploy whose commit leaves the pending record out.
deploy_without_placement_commit(s, c, cluster, pending) ==
    IF cluster = NONE
    THEN { [s EXCEPT !.dep[c] = "failed",
                     !.failed = @ \cup {c},
                     !.raised = "attribute_error"] }
    ELSE
    { IF apply_ok
      THEN [s EXCEPT !.mf = gateway_apply(s.mf, cluster, c, TRUE),
                     !.committed = TRUE,
                     !.dep[c] = "ok",
                     !.calls.apply = @ + 1,
                     !.targets = @ \cup {Target(c, cluster)},
                     !.steps = Append(@, "gateway_apply")]
      ELSE [s EXCEPT !.dep[c] = "failed",
                     !.calls.apply = @ + 1,
                     !.calls.apply_failed = @ + 1,
                     !.targets = @ \cup {Target(c, cluster)},
                     !.steps = Append(@, "gateway_apply"),
                     !.failed = @ \cup {c},
                     !.raised = "deploy_failed",
                     !.named = cluster,
                     !.wrapped = "gateway_error"] :
      apply_ok \in BOOLEAN }

\* A deploy that notes the gateway's failure and returns.
deploy_to_kubernetes_quietly(s, c, cluster, pending) ==
    IF cluster = NONE
    THEN { [s EXCEPT !.dep[c] = "failed",
                     !.failed = @ \cup {c},
                     !.raised = "attribute_error"] }
    ELSE
    { IF apply_ok
      THEN [s EXCEPT !.mf = gateway_apply(s.mf, cluster, c, TRUE),
                     !.ci = @ \cup pending,
                     !.committed = TRUE,
                     !.dep[c] = "ok",
                     !.calls.apply = @ + 1,
                     !.targets = @ \cup {Target(c, cluster)},
                     !.steps = Append(@, "gateway_apply")]
      ELSE [s EXCEPT !.dep[c] = "failed",
                     !.calls.apply = @ + 1,
                     !.calls.apply_failed = @ + 1,
                     !.targets = @ \cup {Target(c, cluster)},
                     !.steps = Append(@, "gateway_apply"),
                     !.failed = @ \cup {c}] :
      apply_ok \in BOOLEAN }

\* A deploy that sends a failed apply a second time before it gives up.
deploy_to_kubernetes_retrying(s, c, cluster, pending) ==
    IF cluster = NONE
    THEN { [s EXCEPT !.dep[c] = "failed",
                     !.failed = @ \cup {c},
                     !.raised = "attribute_error"] }
    ELSE
    { IF apply_ok
      THEN [s EXCEPT !.mf = gateway_apply(s.mf, cluster, c, TRUE),
                     !.ci = @ \cup pending,
                     !.committed = TRUE,
                     !.dep[c] = "ok",
                     !.calls.apply = @ + 1,
                     !.targets = @ \cup {Target(c, cluster)},
                     !.steps = Append(@, "gateway_apply")]
      ELSE [s EXCEPT !.dep[c] = "failed",
                     !.calls.apply = @ + 2,
                     !.calls.apply_failed = @ + 2,
                     !.targets = @ \cup {Target(c, cluster)},
                     !.steps = Append(@, "gateway_apply"),
                     !.failed = @ \cup {c},
                     !.raised = "deploy_failed",
                     !.named = cluster,
                     !.wrapped = "gateway_error"] :
      apply_ok \in BOOLEAN }

\* A deploy whose failure leaves the pending record in the store.
deploy_to_kubernetes_keeping_record(s, c, cluster, pending) ==
    IF cluster = NONE
    THEN { [s EXCEPT !.dep[c] = "failed",
                     !.failed = @ \cup {c},
                     !.raised = "attribute_error"] }
    ELSE
    { IF apply_ok
      THEN [s EXCEPT !.mf = gateway_apply(s.mf, cluster, c, TRUE),
                     !.ci = @ \cup pending,
                     !.committed = TRUE,
                     !.dep[c] = "ok",
                     !.calls.apply = @ + 1,
                     !.targets = @ \cup {Target(c, cluster)},
                     !.steps = Append(@, "gateway_apply")]
      ELSE [s EXCEPT !.dep[c] = "failed",
                     !.ci = @ \cup pending,
                     !.calls.apply = @ + 1,
                     !.calls.apply_failed = @ + 1,
                     !.targets = @ \cup {Target(c, cluster)},
                     !.steps = Append(@, "gateway_apply"),
                     !.failed = @ \cup {c},
                     !.raised = "deploy_failed",
                     !.named = cluster,
                     !.wrapped = "gateway_error"] :
      apply_ok \in BOOLEAN }

\* upsert, then commit (the pending record becomes a row) or roll back and
\* raise: one outcome per gateway answer.  With no cluster (None) the upsert
\* raises before it reaches the gateway, and the except clause, which reads
\* cluster.name, raises in its turn after the rollback.
deploy_to_kubernetes(s, c, cluster, pending) ==
    IF cluster = NONE
    THEN { [s EXCEPT !.dep[c] = "failed",
                     !.failed = @ \cup {c},
                     !.raised = "attribute_error"] }
    ELSE
    { IF apply_ok
      THEN [s EXCEPT !.mf = gateway_apply(s.mf, cluster, c, TRUE),
                     !.ci = @ \cup pending,
                     !.committed = TRUE,
                     !.dep[c] = "ok",
                     !.calls.apply = @ + 1,
                     !.targets = @ \cup {Target(c, cluster)},
                     !.steps = Append(@, "gateway_apply")]
      ELSE [s EXCEPT !.dep[c] = "failed",
                     !.calls.apply = @ + 1,
                     !.calls.apply_failed = @ + 1,
                     !.targets = @ \cup {Target(c, cluster)},
                     !.steps = Append(@, "gateway_apply"),
                     !.failed = @ \cup {c},
                     !.raised = "deploy_failed",
                     !.named = cluster,
                     !.wrapped = "gateway_error"] :
      apply_ok \in BOOLEAN }

\* A delete that lets the gateway's failure escape.
delete_from_kubernetes_unsafe(s, c, cluster, pending) ==
    IF cluster = NONE
    THEN { [s EXCEPT !.raised = "attribute_error"] }
    ELSE
    { IF delete_ok
      THEN [s EXCEPT !.mf = gateway_delete(s.mf, cluster, c, TRUE),
                     !.ci = @ \cup pending,
                     !.committed = TRUE,
                     !.calls.delete = @ + 1,
                     !.targets = @ \cup {Target(c, cluster)},
                     !.steps = Append(@, "gateway_delete")]
      ELSE [s EXCEPT !.calls.delete = @ + 1,
                     !.calls.delete_failed = @ + 1,
                     !.targets = @ \cup {Target(c, cluster)},
                     !.steps = Append(@, "gateway_delete"),
                     !.raised = "delete_failed"] :
      delete_ok \in BOOLEAN }

\* delete, then commit whether or not the gateway call failed.  With no
\* cluster (None) the call raises before it reaches the gateway, and the
\* except clause commits all the same.
delete_from_kubernetes_safe(s, c, cluster, pending) ==
    IF cluster = NONE
    THEN { [s EXCEPT !.ci = @ \cup pending, !.committed = TRUE] }
    ELSE
    { [s EXCEPT !.mf = gateway_delete(s.mf, cluster, c, delete_ok),
                !.ci = @ \cup pending,
                !.committed = TRUE,
                !.calls.delete = @ + 1,
                !.calls.delete_failed = IF delete_ok THEN @ ELSE @ + 1,
                !.targets = @ \cup {Target(c, cluster)},
                !.steps = Append(@, "gateway_delete")] :
      delete_ok \in BOOLEAN }

\* A handler of the change that deploys whichever way enabled changed.
handle_enabled_change_deploying(s, c, enabled_changed, cluster, pending) ==
    IF enabled_changed.was_enabled # enabled_changed.will_be_enabled
    THEN deploy_to_kubernetes(s, c, cluster, pending)
    ELSE {s}

handle_enabled_change(s, c, enabled_changed, cluster, pending) ==
    IF enabled_changed.was_enabled /\ ~enabled_changed.will_be_enabled
    THEN delete_from_kubernetes_safe(s, c, cluster, pending)
    ELSE IF ~enabled_changed.was_enabled /\ enabled_changed.will_be_enabled
         THEN deploy_to_kubernetes(s, c, cluster, pending)
         ELSE {s}

\* ------------------------------------------------------ desired-state builder
\* A rule that treats an exposure of None as an absent one.
ensure_private_exposure_settings_or_null(settings_dict) ==
    IF settings_dict.exposure.type = NONE \/ settings_dict.exposure = NullExposure
    THEN [settings_dict EXCEPT !.exposure = Exposure("http", 80, "private")]
    ELSE IF settings_dict.exposure.visibility = NONE
         THEN [settings_dict EXCEPT !.exposure.visibility = "private"]
         ELSE settings_dict

\* 'exposure' not in settings_dict, then 'visibility' not in the value of the
\* exposure key: a membership test on None raises TypeError.
ensure_private_exposure_settings(settings_dict) ==
    IF settings_dict.exposure.type = NONE
    THEN [settings_dict EXCEPT !.exposure = Exposure("http", 80, "private")]
    ELSE IF settings_dict.exposure = NullExposure
         THEN TypeError
         ELSE IF settings_dict.exposure.visibility = NONE
              THEN [settings_dict EXCEPT !.exposure.visibility = "private"]
              ELSE settings_dict

build_application_component_entity(name, settings_dict, component_type, url, enabled) ==
    [exists |-> TRUE, type |-> component_type, name |-> name,
     enabled |-> enabled, settings |-> settings_dict, url |-> url]

\* A helper that saves the component only when the payload carries enabled.
update_component_enabled_field_saving_changes(row, has_enabled, enabled) ==
    [row |-> IF has_enabled THEN [row EXCEPT !.enabled = enabled] ELSE row,
     changed |-> has_enabled /\ enabled # row.enabled,
     was_enabled |-> row.enabled,
     will_be_enabled |-> IF has_enabled THEN enabled ELSE row.enabled,
     updates |-> IF has_enabled THEN 1 ELSE 0]

\* Returns the row with enabled set and the change info (has_enabled: enabled
\* is not None); updates counts its calls of repository.update, one on every
\* path.
update_component_enabled_field(row, has_enabled, enabled) ==
    [row |-> IF has_enabled THEN [row EXCEPT !.enabled = enabled] ELSE row,
     changed |-> has_enabled /\ enabled # row.enabled,
     was_enabled |-> row.enabled,
     will_be_enabled |-> IF has_enabled THEN enabled ELSE row.enabled,
     updates |-> 1]

\* ---------------------------------------------------------------- validators
\* not name or not name.strip(), then ' ' in name
validate_worker_create_dto(dto) ==
    /\ dto.name # <<>>
    /\ \E i \in 1..Len(dto.name) : dto.name[i] \notin Whitespace
    /\ \A i \in 1..Len(dto.name) : dto.name[i] # " "

\* A lookup that takes every instance uuid for a known one.
validate_instance_exists_unchecked(uuid) ==
    TRUE

\* repository.find_instance_by_uuid(uuid), raising when it finds none
validate_instance_exists(uuid) ==
    uuid \in instances

\* A lookup that takes every uuid for a known one.
validate_worker_exists_unchecked(rows, c, component_type) ==
    TRUE

\* find_by_uuid filters on the kind's type
validate_worker_exists(rows, c, component_type) ==
    rows[c].exists /\ rows[c].type = component_type

\* ------------------------------------------------------------ request outcome
\* The request's session ends: what it committed is the new store.
Outcome(rows, s, op, c, req) ==
    /\ components' = rows
    /\ cluster_instances' = s.ci
    /\ manifests' = s.mf
    /\ deployed' = s.dep
    /\ last' = Result(op, c, IF s.raised = NONE THEN "ok" ELSE s.raised, s, req)
    /\ UNCHANGED <<requests, instances, environments>>

\* Rejected before anything was written or sent.
Reject(op, c, error, req) ==
    /\ UNCHANGED <<components, next_id, cluster_instances, manifests, deployed,
                   requests, instances, environments>>
    /\ last' = Result(op, c, error, Session({}, <<>>, <<>>), req)

\* repository.create, ensure_cluster_instance and the deploy that end a create.
CreateRow(row, req) ==
    /\ LET c == next_id
           s0 == Session(cluster_instances, manifests, deployed)
       IN  \E cluster \in get_cluster_for_instance \ {NONE} :
           \E e \in ensure_cluster_instance(cluster_instances, c, cluster) :
           \E s \in deploy_to_kubernetes(
                        [s0 EXCEPT !.selected = {Target(c, cluster)}],
                        c, e.cluster, e.pending) :
               /\ next_id' = next_id + 1
               /\ Outcome([components EXCEPT ![c] = row], s, "create", c, req)

\* The settings of the entity an update's apply is rendered from: the
\* component in memory, with the fields of the payload set; NONE when the
\* update has sent no apply.
Carrying(req, s, row) ==
    [req EXCEPT !.carried = IF s.calls.apply > 0 THEN row.settings ELSE NONE]

\* An update that calls the cluster only when enabled changed.
DeployUpdate_on_enabled_change(c, row, enabled_changed, has_changes, req) ==
    \E g \in get_or_create_cluster_instance(cluster_instances, c) :
    LET s0 == [Session(cluster_instances, manifests, deployed) EXCEPT
                  !.selected = IF g.selected THEN {Target(c, g.cluster)} ELSE {}]
    IN
    \E s \in IF g.raised # NONE
             THEN { [s0 EXCEPT !.raised = g.raised, !.failed = {c}] }
             ELSE IF enabled_changed.changed
             THEN UNION { handle_enabled_change(s0, c, enabled_changed, cluster,
                                                g.pending) :
                          cluster \in cluster_instance_cluster(g) }
             ELSE {s0} :
        /\ UNCHANGED next_id
        /\ Outcome([components EXCEPT ![c] = row], s, "update", c,
                   Carrying(req, s, row))

\* An update that redeploys on any change, enabled or not.
DeployUpdate_when_disabled(c, row, enabled_changed, has_changes, req) ==
    \E g \in get_or_create_cluster_instance(cluster_instances, c) :
    LET s0 == [Session(cluster_instances, manifests, deployed) EXCEPT
                  !.selected = IF g.selected THEN {Target(c, g.cluster)} ELSE {}]
    IN
    \E s \in IF g.raised # NONE
             THEN { [s0 EXCEPT !.raised = g.raised, !.failed = {c}] }
             ELSE IF enabled_changed.changed
             THEN UNION { handle_enabled_change(s0, c, enabled_changed, cluster,
                                                g.pending) :
                          cluster \in cluster_instance_cluster(g) }
             ELSE IF has_changes
             THEN UNION { deploy_to_kubernetes(s0, c, cluster, g.pending) :
                          cluster \in cluster_instance_cluster(g) }
             ELSE {s0} :
        /\ UNCHANGED next_id
        /\ Outcome([components EXCEPT ![c] = row], s, "update", c,
                   Carrying(req, s, row))

\* The part of an update that follows the commit of the fields.
DeployUpdate(c, row, enabled_changed, has_changes, req) ==
    \E g \in get_or_create_cluster_instance(cluster_instances, c) :
    LET s0 == [Session(cluster_instances, manifests, deployed) EXCEPT
                  !.selected = IF g.selected THEN {Target(c, g.cluster)} ELSE {}]
    IN
    \E s \in IF g.raised # NONE
             THEN { [s0 EXCEPT !.raised = g.raised, !.failed = {c}] }
             ELSE IF enabled_changed.changed
             THEN UNION { handle_enabled_change(s0, c, enabled_changed, cluster,
                                                g.pending) :
                          cluster \in cluster_instance_cluster(g) }
             ELSE IF row.enabled /\ has_changes
             THEN UNION { deploy_to_kubernetes(s0, c, cluster, g.pending) :
                          cluster \in cluster_instance_cluster(g) }
             ELSE {s0} :
        /\ UNCHANGED next_id
        /\ Outcome([components EXCEPT ![c] = row], s, "update", c,
                   Carrying(req, s, row))

\* ------------------------------------------- worker and cron orchestrators
_update_worker_fields(row, dto) ==
    LET enabled_changed ==
            update_component_enabled_field(row, dto.has_enabled, dto.enabled)
    IN  IF dto.has_settings
        THEN [enabled_changed EXCEPT !.row.settings = dto.settings]
        ELSE enabled_changed

\* A create that stores the row before it asks the selector.
CreateComponent_row_first(component_type) ==
    /\ next_id <= MaxCreated
    /\ \E dto \in WorkerCreate, instance_uuid \in InstanceUuids :
        LET asks == NamedBy(NoRequest, dto.name)
            req == IF instance_uuid \in instances THEN asks
                   ELSE UnknownInstance(asks)
        IN
        IF ~validate_worker_create_dto(dto)
        THEN Reject("create", 0, "validation_error", req)
        ELSE IF ~validate_instance_exists(instance_uuid)
        THEN Reject("create", 0, "instance_not_found", req)
        ELSE \/ /\ NONE \in get_cluster_for_instance
                /\ next_id' = next_id + 1
                /\ Outcome([components EXCEPT ![next_id] =
                               build_application_component_entity(
                                   dto.name,
                                   ensure_private_exposure_settings(dto.settings),
                                   component_type, NONE, dto.enabled)],
                           [Session(cluster_instances, manifests, deployed)
                              EXCEPT !.raised = "no_cluster"],
                           "create", next_id, req)
             \/ CreateRow(build_application_component_entity(
                              dto.name, ensure_private_exposure_settings(dto.settings),
                              component_type, NONE, dto.enabled),
                          req)

\* WorkerService.create_worker and CronService.create_cron (same code).
\* Creates are served while the store has ids left to hand out.
CreateComponent(component_type) ==
    /\ next_id <= MaxCreated
    /\ \E dto \in WorkerCreate, instance_uuid \in InstanceUuids :
        LET asks == NamedBy(NoRequest, dto.name)
            req == IF instance_uuid \in instances THEN asks
                   ELSE UnknownInstance(asks)
        IN
        IF ~validate_worker_create_dto(dto)
        THEN Reject("create", 0, "validation_error", req)
        ELSE IF ~validate_instance_exists(instance_uuid)
        THEN Reject("create", 0, "instance_not_found", req)
        ELSE \/ /\ NONE \in get_cluster_for_instance
                /\ Reject("create", 0, "no_cluster", req)
             \/ CreateRow(build_application_component_entity(
                              dto.name, ensure_private_exposure_settings(dto.settings),
                              component_type, NONE, dto.enabled),
                          req)

\* The fields of a worker's or cron's update payload (it has no url).
WorkerPayload(dto) ==
    [has_enabled |-> dto.has_enabled, enabled |-> dto.enabled,
     has_settings |-> dto.has_settings, settings |-> dto.settings, url |-> NONE]

\* WorkerService.update_worker and CronService.update_cron (same code).
UpdateComponent(component_type) ==
    \E c \in CompIds :
        IF ~validate_worker_exists(components, c, component_type)
        THEN Reject("update", c, "not_found", Through(NoRequest, component_type))
        ELSE \E dto \in WorkerUpdate :
               LET enabled_changed == _update_worker_fields(components[c], dto) IN
               DeployUpdate(c, enabled_changed.row, enabled_changed,
                            dto.has_settings \/ dto.has_enabled,
                            Through(Request(WorkerPayload(dto), FALSE, FALSE), component_type))

\* A deletion that removes the row first, then the record, and calls the
\* gateway last.
delete_component_row_first(component_type) ==
    \E c \in CompIds :
        IF ~validate_worker_exists(components, c, component_type)
        THEN Reject("delete", c, "not_found", Through(NoRequest, component_type))
        ELSE
            LET existing == find_cluster_instance_by_component_id(cluster_instances, c)
                s0 == [Session(cluster_instances, manifests, deployed) EXCEPT
                          !.steps = <<"delete">>]
                rows == [components EXCEPT ![c] = NoRow]
            IN  /\ UNCHANGED next_id
                /\ IF existing = {}
                   THEN Outcome(rows, s0, "delete", c, Through(NoRequest, component_type))
                   ELSE \E cluster_instance \in existing :
                        \E s \in delete_from_kubernetes_safe(
                                     [s0 EXCEPT
                                        !.ci = @ \ {cluster_instance},
                                        !.steps = Append(@, "delete_cluster_instance")],
                                     c, cluster_instance.cluster_id, {}) :
                            Outcome(rows, s, "delete", c, Through(NoRequest, component_type))

\* get_worker / get_cron / get_webapp: a read of the store.
GetComponent(component_type) ==
    \E c \in CompIds :
        IF ~validate_worker_exists(components, c, component_type)
        THEN Reject("get", c, "not_found", Through(NoRequest, component_type))
        ELSE Reject("get", c, "ok", Through(NoRequest, component_type))

\* A deletion that removes the row and leaves the PlacementRecord behind.
delete_component_keeping_record(component_type) ==
    \E c \in CompIds :
        IF ~validate_worker_exists(components, c, component_type)
        THEN Reject("delete", c, "not_found", Through(NoRequest, component_type))
        ELSE
            LET existing == find_cluster_instance_by_component_id(cluster_instances, c)
                s0 == Session(cluster_instances, manifests, deployed)
                rows == [components EXCEPT ![c] = NoRow]
            IN  /\ UNCHANGED next_id
                /\ IF existing = {}
                   THEN Outcome(rows, [s0 EXCEPT !.steps = Append(@, "delete")],
                                "delete", c, Through(NoRequest, component_type))
                   ELSE \E cluster_instance \in existing :
                        \E s \in delete_from_kubernetes_safe(
                                     s0, c, cluster_instance.cluster_id, {}) :
                            IF s.raised # NONE
                            THEN Outcome(components, s, "delete", c, Through(NoRequest, component_type))
                            ELSE Outcome(rows,
                                         [s EXCEPT !.steps = Append(@, "delete")],
                                         "delete", c, Through(NoRequest, component_type))

\* delete_component, reached from delete_webapp / delete_worker / delete_cron.
delete_component(component_type) ==
    \E c \in CompIds :
        IF ~validate_worker_exists(components, c, component_type)
        THEN Reject("delete", c, "not_found", Through(NoRequest, component_type))
        ELSE
            LET existing == find_cluster_instance_by_component_id(cluster_instances, c)
                s0 == Session(cluster_instances, manifests, deployed)
                rows == [components EXCEPT ![c] = NoRow]
            IN  /\ UNCHANGED next_id
                /\ IF existing = {}
                   THEN Outcome(rows, [s0 EXCEPT !.steps = Append(@, "delete")],
                                "delete", c, Through(NoRequest, component_type))
                   ELSE \E cluster_instance \in existing :
                        \E s \in delete_from_kubernetes_safe(
                                     s0, c, cluster_instance.cluster_id, {}) :
                            IF s.raised # NONE
                            THEN Outcome(components, s, "delete", c, Through(NoRequest, component_type))
                            ELSE Outcome(rows,
                                         [s EXCEPT
                                            !.ci = @ \ {cluster_instance},
                                            !.steps = @ \o <<"delete_cluster_instance",
                                                             "delete">>],
                                         "delete", c, Through(NoRequest, component_type))

\* ------------------------------------------------------- webapp orchestrator
\* Python truthiness of a url: None and "" are falsy.
Truthy(url) == url \notin {NONE, ""}

UrlRequired(exposure) ==
    exposure.type = "http" /\ exposure.visibility # "cluster"

\* WebappCreate.validate_url (model validator of the payload)
WebappCreate_validate_url(dto) ==
    LET exposure == dto.settings.exposure IN
    /\ ~(UrlRequired(exposure) /\ ~Truthy(dto.url))
    /\ ~(~UrlRequired(exposure) /\ Truthy(dto.url))

\* WebappUpdate.validate_url (model validator of the payload)
WebappUpdate_validate_url(dto) ==
    dto.has_settings =>
        ~(~UrlRequired(dto.settings.exposure) /\ dto.url # NONE)

validate_url_for_exposure(url, exposure, is_update) ==
    /\ ~(UrlRequired(exposure) /\ ~Truthy(url) /\ ~is_update)
    /\ ~(~UrlRequired(exposure) /\ Truthy(url))

\* What the gateway can report about a cluster at the time of a call.
ClusterCapabilities ==
    { k \in [gateway_api : BOOLEAN, resources : SUBSET {"HTTPRoute", "TCPRoute"}] :
        ~k.gateway_api => k.resources = {} }

type_to_resource(exposure_type) ==
    CASE exposure_type = "http" -> "HTTPRoute"
      [] exposure_type = "tcp" -> "TCPRoute"
      [] exposure_type = "udp" -> "UDPRoute"
      [] OTHER -> NONE

\* NONE, or the error the validator raises.
validate_exposure_type_for_cluster(caps, exposure_type) ==
    IF type_to_resource(exposure_type) = NONE THEN NONE
    ELSE IF ~caps.gateway_api THEN "invalid_exposure_type"
    ELSE IF type_to_resource(exposure_type) \notin caps.resources
         THEN "invalid_exposure_type"
         ELSE NONE

validate_visibility_for_cluster(caps, visibility) ==
    IF visibility \notin {"public", "private"} THEN NONE
    ELSE IF ~caps.gateway_api THEN "invalid_visibility"
    ELSE NONE

_validate_exposure_settings(settings_dict, caps) ==
    LET e == validate_exposure_type_for_cluster(caps, settings_dict.exposure.type) IN
    IF e # NONE THEN e
    ELSE validate_visibility_for_cluster(caps, settings_dict.exposure.visibility)

_build_webapp_entity(dto) ==
    [exists |-> TRUE, type |-> "webapp", name |-> dto.name,
     enabled |-> dto.enabled, settings |-> dto.settings,
     url |-> IF UrlRequired(dto.settings.exposure) THEN dto.url ELSE NONE]

\* An update of the fields that keeps the url when the new exposure takes none.
_update_webapp_fields_keeping_url(row, dto) ==
    LET with_settings ==
            IF dto.has_settings
            THEN [row EXCEPT
                    !.settings = dto.settings,
                    !.url = IF dto.url # NONE THEN dto.url ELSE @]
            ELSE row
        with_enabled ==
            IF dto.has_enabled THEN [with_settings EXCEPT !.enabled = dto.enabled]
            ELSE with_settings
    IN  [row |-> with_enabled,
         changed |-> dto.has_enabled /\ dto.enabled # with_settings.enabled,
         was_enabled |-> row.enabled,
         will_be_enabled |-> IF dto.has_enabled THEN dto.enabled ELSE row.enabled,
         raised |-> IF UrlRequired(with_enabled.settings.exposure)
                       /\ ~Truthy(with_enabled.url)
                    THEN "invalid_url" ELSE NONE]

\* The row as the method leaves it, the change info, and raised: the error it
\* raises before repository.update, if any.
_update_webapp_fields(row, dto) ==
    LET with_settings ==
            IF dto.has_settings
            THEN [row EXCEPT
                    !.settings = dto.settings,
                    !.url = IF ~UrlRequired(dto.settings.exposure) THEN NONE
                            ELSE IF dto.url # NONE THEN dto.url
                            ELSE @]
            ELSE row
        with_enabled ==
            IF dto.has_enabled THEN [with_settings EXCEPT !.enabled = dto.enabled]
            ELSE with_settings
    IN  [row |-> with_enabled,
         changed |-> dto.has_enabled /\ dto.enabled # with_settings.enabled,
         was_enabled |-> row.enabled,
         will_be_enabled |-> IF dto.has_enabled THEN dto.enabled ELSE row.enabled,
         raised |-> IF UrlRequired(with_enabled.settings.exposure)
                       /\ ~Truthy(with_enabled.url)
                    THEN "invalid_url" ELSE NONE]

\* Whether a request's url and the exposure the webapp would end with
\* disagree: a url supplied with an exposure that takes none, or no url
\* available for an exposure that needs one.
UrlMismatch(supplied, available, exposure) ==
    \/ ~UrlRequired(exposure) /\ Truthy(supplied)
    \/ UrlRequired(exposure) /\ ~Truthy(available)

CreateMismatch(dto) == UrlMismatch(dto.url, dto.url, dto.settings.exposure)

UpdateMismatch(row, dto) ==
    /\ row.exists /\ row.type = "webapp"
    /\ UrlMismatch(dto.url,
                   IF dto.url # NONE THEN dto.url ELSE row.url,
                   IF dto.has_settings THEN dto.settings.exposure
                   ELSE row.settings.exposure)

\* Whether the cluster lacks a capability the settings ask for.
Unsupported(settings_dict, caps) ==
    _validate_exposure_settings(settings_dict, caps) # NONE

\* caps: what the selected cluster advertises when the service asks.
\* Creates are served while the store has ids left to hand out.
create_webapp ==
    /\ next_id <= MaxCreated
    /\ \E dto \in WebappCreate, instance_uuid \in InstanceUuids :
        LET asks == NamedBy(Request(NoPayload, CreateMismatch(dto), FALSE), dto.name)
            req == IF instance_uuid \in instances THEN asks
                   ELSE UnknownInstance(asks)
        IN
        IF ~WebappCreate_validate_url(dto) \/ ~validate_worker_create_dto(dto)
        THEN Reject("create", 0, "validation_error", req)
        ELSE IF ~validate_instance_exists(instance_uuid)
        THEN Reject("create", 0, "instance_not_found", req)
        ELSE \/ /\ NONE \in get_cluster_for_instance
                /\ Reject("create", 0, "no_cluster", req)
             \/ \E caps \in ClusterCapabilities :
                  LET e == _validate_exposure_settings(dto.settings, caps)
                      asked == [req EXCEPT
                                  !.unsupported = Unsupported(dto.settings, caps)]
                  IN
                  IF e # NONE THEN Reject("create", 0, e, asked)
                  ELSE IF ~validate_url_for_exposure(dto.url, dto.settings.exposure, FALSE)
                  THEN Reject("create", 0, "invalid_url", asked)
                  ELSE CreateRow(_build_webapp_entity(dto), asked)

\* caps: what the component's cluster advertises while the update is served
\* (the update does not ask).
update_webapp ==
    \E c \in CompIds, dto \in WebappUpdate :
        LET req == Through(Request(NoPayload, UpdateMismatch(components[c], dto), FALSE),
                           "webapp") IN
        IF ~WebappUpdate_validate_url(dto)
        THEN Reject("update", c, "validation_error", req)
        ELSE IF ~validate_worker_exists(components, c, "webapp")
        THEN Reject("update", c, "not_found", req)
        ELSE LET enabled_changed == _update_webapp_fields(components[c], dto) IN
             IF enabled_changed.raised # NONE
             THEN Reject("update", c, enabled_changed.raised, req)
             ELSE \E caps \in IF dto.has_settings THEN ClusterCapabilities
                              ELSE {[gateway_api |-> TRUE,
                                     resources |-> {"HTTPRoute", "TCPRoute"}]} :
                  DeployUpdate(c, enabled_changed.row, enabled_changed,
                               dto.has_settings \/ dto.url # NONE \/ dto.has_enabled,
                               Through(Request(dto, req.mismatch,
                                               dto.has_settings
                                               /\ Unsupported(dto.settings, caps)),
                                       "webapp"))

delete_webapp == delete_component("webapp")

get_webapp == GetComponent("webapp")

\* -------------------------------------------------------- instance reconciler
EnabledRows == { c \in CompIds : components[c].exists /\ components[c].enabled }

SyncError(c, error) == [component |-> components[c].name, error |-> error]

\* The session once get-or-create has answered g for component i, and once
\* the upsert for it has been sent.
Asked(s, g, i) ==
    [s EXCEPT !.selected = IF g.selected THEN @ \cup {Target(i, g.cluster)} ELSE @]

Called(s, g, i) ==
    [Asked(s, g, i) EXCEPT !.targets = @ \cup {Target(i, g.cluster)},
                           !.steps = Append(@, "gateway_apply")]

\* A turn of the loop without the try / except: a failure escapes.
sync_component_unguarded(s, i) ==
    UNION {
        IF g.raised # NONE
        THEN { [s |-> [Asked(s, g, i) EXCEPT !.failed = @ \cup {i}, !.raised = g.raised],
                synced |-> 0,
                errors |-> <<>>] }
        ELSE { [s |-> [Asked(s, g, i) EXCEPT !.dep[i] = "failed",
                                             !.failed = @ \cup {i},
                                             !.raised = "attribute_error"],
                synced |-> 0,
                errors |-> <<>>] :
               cluster \in cluster_instance_cluster(g) \cap {NONE} }
          \cup
             { IF apply_ok
               THEN [s |-> [Called(s, g, i) EXCEPT
                                     !.mf = gateway_apply(s.mf, g.cluster, i, TRUE),
                                     !.ci = @ \cup g.pending,
                                     !.dep[i] = "ok",
                                     !.calls.apply = @ + 1],
                     synced |-> 1,
                     errors |-> <<>>]
               ELSE [s |-> [Called(s, g, i) EXCEPT
                                     !.dep[i] = "failed",
                                     !.calls.apply = @ + 1,
                                     !.calls.apply_failed = @ + 1,
                                     !.failed = @ \cup {i},
                                     !.raised = "apply_failed"],
                     synced |-> 0,
                     errors |-> <<>>]
               : apply_ok \in BOOLEAN }
        : g \in get_or_create_cluster_instance(s.ci, i) }

\* One turn of the loop, for enabled component i: the try block and its
\* except.  The upsert gets cluster_instance.cluster: with None it raises
\* before it reaches the gateway.  Every way it can end, given what the selector and the gateway
\* answer: the session after it, whether it counted as synced, its error entry.
sync_known_component(s, i) ==
    UNION {
        IF g.raised # NONE
        THEN { [s |-> [Asked(s, g, i) EXCEPT !.failed = @ \cup {i}],
                synced |-> 0,
                errors |-> <<SyncError(i, g.raised)>>] }
        ELSE { [s |-> [Asked(s, g, i) EXCEPT !.dep[i] = "failed",
                                             !.failed = @ \cup {i}],
                synced |-> 0,
                errors |-> <<SyncError(i, "attribute_error")>>] :
               cluster \in cluster_instance_cluster(g) \cap {NONE} }
          \cup
             { IF apply_ok
               THEN [s |-> [Called(s, g, i) EXCEPT
                                     !.mf = gateway_apply(s.mf, g.cluster, i, TRUE),
                                     !.ci = @ \cup g.pending,
                                     !.dep[i] = "ok",
                                     !.calls.apply = @ + 1],
                     synced |-> 1,
                     errors |-> <<>>]
               ELSE [s |-> [Called(s, g, i) EXCEPT
                                     !.dep[i] = "failed",
                                     !.calls.apply = @ + 1,
                                     !.calls.apply_failed = @ + 1,
                                     !.failed = @ \cup {i}],
                     synced |-> 0,
                     errors |-> <<SyncError(i, "apply_failed")>>]
               : apply_ok \in BOOLEAN }
        : g \in get_or_create_cluster_instance(s.ci, i) }

\* The kinds _get_component_repository has a repository for.
KnownKinds == {"webapp", "worker", "cron"}

\* A turn that passes over a component of a kind it does not know.
sync_component_skipping_unknown(s, i) ==
    IF components[i].type \notin KnownKinds
    THEN { [s |-> s, synced |-> 0, errors |-> <<>>] }
    ELSE sync_known_component(s, i)

\* One turn of the loop: _get_component_repository raises for a kind it does
\* not know, inside the try, so the turn ends with one error entry.
sync_component(s, i) ==
    IF components[i].type \notin KnownKinds
    THEN { [s |-> [s EXCEPT !.failed = @ \cup {i}],
            synced |-> 0,
            errors |-> <<SyncError(i, "unknown_type")>>] }
    ELSE sync_known_component(s, i)

\* A loop that takes every component of the instance, enabled or not.
RECURSIVE sync_components_all(_, _, _, _)
sync_components_all(i, s, synced_components, errors) ==
    IF i > MaxComponents \/ s.raised # NONE
    THEN { [s |-> s, synced_components |-> synced_components, errors |-> errors] }
    ELSE IF ~components[i].exists
    THEN sync_components_all(i + 1, s, synced_components, errors)
    ELSE UNION { sync_components_all(i + 1, o.s, synced_components + o.synced,
                                     errors \o o.errors) :
                 o \in sync_component(s, i) }

\* The loop of sync_instance from component i on; an error that escapes a
\* turn ends it.
RECURSIVE sync_components(_, _, _, _)
sync_components(i, s, synced_components, errors) ==
    IF i > MaxComponents \/ s.raised # NONE
    THEN { [s |-> s, synced_components |-> synced_components, errors |-> errors] }
    ELSE IF ~(components[i].exists /\ components[i].enabled)
    THEN sync_components(i + 1, s, synced_components, errors)
    ELSE UNION { sync_components(i + 1, o.s, synced_components + o.synced,
                                 errors \o o.errors) :
                 o \in sync_component(s, i) }

sync_instance ==
    \/ Reject("sync", 0, "instance_not_found", NoRequest)
    \/ \E o \in sync_components(
                    1, Session(cluster_instances, manifests, deployed), 0, <<>>) :
         /\ UNCHANGED <<components, next_id, requests, instances, environments>>
         /\ cluster_instances' = o.s.ci
         /\ manifests' = o.s.mf
         /\ deployed' = o.s.dep
         /\ last' = [Result("sync", 0,
                            IF o.s.raised = NONE THEN "ok" ELSE o.s.raised,
                            o.s, NoRequest) EXCEPT
                       !.synced_components = o.synced_components,
                       !.total_components = Cardinality(EnabledRows),
                       !.errors = o.errors]

create_worker == CreateComponent("worker")

create_cron == CreateComponent("cron")

update_worker == UpdateComponent("worker")

update_cron == UpdateComponent("cron")

delete_worker == delete_component("worker")

delete_cron == delete_component("cron")

get_worker == GetComponent("worker")

get_cron == GetComponent("cron")

\* ------------------------------------------------------------ specification
Init ==
    /\ components = [c \in CompIds |-> NoRow]
    /\ next_id = 1
    /\ cluster_instances = {}
    /\ manifests = [cl \in Clusters |-> {}]
    /\ deployed = [c \in CompIds |-> "none"]
    /\ last = Result("init", 0, "ok", Session({}, <<>>, <<>>), NoRequest)
    /\ requests = [r \in Reqs |-> IdleRequest]
    /\ instances = {"i1"}
    /\ environments = {"e1"}

Next ==
    \/ create_worker
    \/ create_cron
    \/ update_worker
    \/ update_cron
    \/ delete_worker
    \/ delete_cron
    \/ create_webapp
    \/ update_webapp
    \/ delete_webapp
    \/ get_worker
    \/ get_cron
    \/ get_webapp
    \/ sync_instance

Spec == Init /\ [][Next]_vars

\* ------------------------------------------- reconciling a populated instance
\* Stores the reconciler can meet: any rows, named apart (a worker's and a
\* cron's exposure as create leaves it), each with or without a
\* PlacementRecord (a create whose apply failed leaves none), nothing on the
\* clusters yet.
SeedName(c) == [i \in 1..c |-> "a"]

\* The kinds take turns along the slots: a webapp, a worker, then crons.
SeedType(c) ==
    CASE c = 1 -> "webapp"
      [] c = 2 -> "worker"
      [] OTHER -> "cron"

SeedRows(c) ==
    { build_application_component_entity(
          SeedName(c),
          Settings(1, Exposure("http", 80,
                               IF SeedType(c) = "webapp" THEN "cluster"
                               ELSE "private")),
          SeedType(c), NONE, enabled) :
      enabled \in BOOLEAN }

InitSync ==
    /\ components \in
         { rows \in [CompIds -> UNION { SeedRows(c) : c \in CompIds } \cup {NoRow}] :
             \A c \in CompIds : rows[c] \in SeedRows(c) \cup {NoRow} }
    /\ next_id = MaxComponents + 1
    /\ \E placed \in [CompIds -> Clusters \cup {NONE}] :
         /\ \A c \in CompIds : ~components[c].exists => placed[c] = NONE
         /\ cluster_instances =
                { ClusterInstance(placed[c], c) : c \in { d \in CompIds : placed[d] # NONE } }
    /\ manifests = [cl \in Clusters |-> {}]
    /\ deployed = [c \in CompIds |-> "none"]
    /\ last = Result("init", 0, "ok", Session({}, <<>>, <<>>), NoRequest)
    /\ requests = [r \in Reqs |-> IdleRequest]
    /\ instances = {"i1"}
    /\ environments = {"e1"}

NextSync == sync_instance

\* The same stores, where the kind column of a row may also hold a value
\* none of the three repositories answers for.
KindRows(c) ==
    SeedRows(c) \cup { [row EXCEPT !.type = "unknown"] : row \in SeedRows(c) }

InitSyncKinds ==
    /\ components \in
         { rows \in [CompIds -> UNION { KindRows(c) : c \in CompIds } \cup {NoRow}] :
             \A c \in CompIds : rows[c] \in KindRows(c) \cup {NoRow} }
    /\ next_id = MaxComponents + 1
    /\ \E placed \in [CompIds -> Clusters \cup {NONE}] :
         /\ \A c \in CompIds : ~components[c].exists => placed[c] = NONE
         /\ cluster_instances =
                { ClusterInstance(placed[c], c) : c \in { d \in CompIds : placed[d] # NONE } }
    /\ manifests = [cl \in Clusters |-> {}]
    /\ deployed = [c \in CompIds |-> "none"]
    /\ last = Result("init", 0, "ok", Session({}, <<>>, <<>>), NoRequest)
    /\ requests = [r \in Reqs |-> IdleRequest]
    /\ instances = {"i1"}
    /\ environments = {"e1"}

NextSyncKinds == sync_instance

SpecSyncKinds == InitSyncKinds /\ [][NextSyncKinds]_vars

SpecSync == InitSync /\ [][NextSync]_vars

\* ------------------------------------------------------ requests in parallel
\* Each request has its own session: it reads what is committed, keeps the
\* record it adds to itself until its commit, and its commit inserts it.
\* The step of a request from one read or commit of the store to the next
\* is one action.

\* The session of request r over the store as committed now.
SessionOf(r) ==
    [Session(cluster_instances, manifests, deployed) EXCEPT
        !.calls = requests[r].calls, !.failed = requests[r].failed]

\* The commit of outcome s by a session holding pending: the insert of a
\* (cluster_id, application_component_id) pair that is already a row breaks
\* the unique constraint, and nothing of the session is committed.
Committed(s0, s) == s.raised = NONE /\ s.committed

CommitOf(s0, s, c, pending) ==
    IF Committed(s0, s) /\ pending \cap cluster_instances # {}
    THEN [s EXCEPT !.ci = cluster_instances,
                   !.dep[c] = "failed",
                   !.failed = @ \cup {c},
                   !.raised = "integrity_error"]
    ELSE s

Store(s) ==
    /\ cluster_instances' = s.ci
    /\ manifests' = s.mf
    /\ deployed' = s.dep

Finished(r) ==
    [requests EXCEPT ![r] = [IdleRequest EXCEPT !.pc = "done"]]

\* Request r has written the row of component c: no other update of c is the
\* last to have done so.
WroteLast(r, c) ==
    [q \in Reqs |->
        IF q # r /\ requests[q].op = "update" /\ requests[q].comp = c
        THEN [requests[q] EXCEPT !.wrote_last = FALSE]
        ELSE requests[q]]

\* Request r has applied component c with success: no other update of c is
\* the last to have done so.
AppliedLast(r, c, applied) ==
    [q \in Reqs |->
        IF applied /\ q # r /\ requests[q].op = "update" /\ requests[q].comp = c
        THEN [requests[q] EXCEPT !.applied_last = FALSE]
        ELSE requests[q]]

\* update_worker / update_cron up to the deploy: the fields are committed,
\* then the record is looked up or added to the session.
ConcUpdatePlace(r) ==
    /\ requests[r].pc = "idle"
    /\ \E c \in CompIds, dto \in WorkerUpdate :
         /\ components[c].exists /\ components[c].type \in {"worker", "cron"}
         /\ LET enabled_changed == _update_worker_fields(components[c], dto) IN
            /\ components' = [components EXCEPT ![c] = enabled_changed.row]
            /\ \E g \in get_or_create_cluster_instance(cluster_instances, c) :
              \E cluster \in cluster_instance_cluster(g) :
                 IF g.raised # NONE
                 THEN /\ requests' =
                            [WroteLast(r, c) EXCEPT ![r] =
                                [IdleRequest EXCEPT
                                    !.pc = "done",
                                    !.op = "update",
                                    !.comp = c,
                                    !.settings = enabled_changed.row.settings,
                                    !.wrote_last = TRUE,
                                    !.result = g.raised]]
                      /\ last' = Result("update", c, g.raised,
                                        [SessionOf(r) EXCEPT !.failed = {c}], NoRequest)
                 ELSE /\ requests' =
                            [WroteLast(r, c) EXCEPT ![r] =
                                [IdleRequest EXCEPT
                                    !.pc = "update_deploy",
                                    !.op = "update",
                                    !.comp = c,
                                    !.settings = enabled_changed.row.settings,
                                    !.wrote_last = TRUE,
                                    !.changed = enabled_changed.changed,
                                    !.was_enabled = enabled_changed.was_enabled,
                                    !.will_be_enabled = enabled_changed.will_be_enabled,
                                    !.redeploy = enabled_changed.row.enabled
                                                 /\ (dto.has_settings \/ dto.has_enabled),
                                    !.cluster = cluster,
                                    !.pending = g.pending]]
                      /\ UNCHANGED last
    /\ UNCHANGED <<instances, environments, next_id, cluster_instances, manifests, deployed>>

\* An update whose apply is rendered from the row as the store holds it now.
ConcUpdateDeploy_from_store(r) ==
    LET q == requests[r]
        s0 == SessionOf(r)
    IN  /\ q.pc = "update_deploy"
        /\ \E s \in IF q.changed
                     THEN handle_enabled_change(s0, q.comp, q, q.cluster, q.pending)
                     ELSE IF q.redeploy
                     THEN deploy_to_kubernetes(s0, q.comp, q.cluster, q.pending)
                     ELSE {s0} :
             LET t == CommitOf(s0, s, q.comp, q.pending)
                 res == IF t.raised = NONE THEN "ok" ELSE t.raised
                 applied == t.calls.apply > q.calls.apply /\ t.raised = NONE
             IN
             /\ Store(t)
             /\ last' = Result("update", q.comp, res, t,
                               Carrying(NoRequest, t, components[q.comp]))
             /\ requests' =
                    [AppliedLast(r, q.comp, applied) EXCEPT ![r] =
                        [q EXCEPT !.pc = "done",
                                  !.pending = {},
                                  !.calls = t.calls,
                                  !.failed = t.failed,
                                  !.result = res,
                                  !.applied_last = applied]]
        /\ UNCHANGED <<instances, environments, components, next_id>>

\* update_worker / update_cron from the gateway call to the end: the apply
\* is rendered from the component the request holds in memory.
ConcUpdateDeploy(r) ==
    LET q == requests[r]
        s0 == SessionOf(r)
    IN  /\ q.pc = "update_deploy"
        /\ \E s \in IF q.changed
                     THEN handle_enabled_change(s0, q.comp, q, q.cluster, q.pending)
                     ELSE IF q.redeploy
                     THEN deploy_to_kubernetes(s0, q.comp, q.cluster, q.pending)
                     ELSE {s0} :
             LET t == CommitOf(s0, s, q.comp, q.pending)
                 res == IF t.raised = NONE THEN "ok" ELSE t.raised
                 applied == t.calls.apply > q.calls.apply /\ t.raised = NONE
             IN
             /\ Store(t)
             /\ last' = Result("update", q.comp, res, t,
                               Carrying(NoRequest, t, q))
             /\ requests' =
                    [AppliedLast(r, q.comp, applied) EXCEPT ![r] =
                        [q EXCEPT !.pc = "done",
                                  !.pending = {},
                                  !.calls = t.calls,
                                  !.failed = t.failed,
                                  !.result = res,
                                  !.applied_last = applied]]
        /\ UNCHANGED <<instances, environments, components, next_id>>

\* sync_instance up to the loop: the instance and its components are loaded.
ConcSyncStart(r) ==
    /\ requests[r].pc = "idle"
    /\ requests' = [requests EXCEPT ![r] =
                        [IdleRequest EXCEPT
                            !.pc = "sync",
                            !.op = "sync",
                            !.todo = EnabledRows,
                            !.total_components = Cardinality(EnabledRows)]]
    /\ UNCHANGED <<instances, environments, components, next_id, cluster_instances, manifests, deployed, last>>

\* A turn of the loop up to the upsert: the record is looked up or added.
ConcSyncPlace(r) ==
    LET q == requests[r] IN
    /\ q.pc = "sync"
    /\ q.todo # {}
    /\ LET c == CHOOSE d \in q.todo : \A e \in q.todo : d <= e IN
       \E g \in get_or_create_cluster_instance(cluster_instances, c) :
       \E cluster \in cluster_instance_cluster(g) :
          requests' =
            [requests EXCEPT ![r] =
                IF g.raised # NONE
                THEN [q EXCEPT !.todo = @ \ {c},
                               !.failed = @ \cup {c},
                               !.errors = Append(@, SyncError(c, g.raised))]
                ELSE [q EXCEPT !.pc = "sync_apply",
                               !.comp = c,
                               !.cluster = cluster,
                               !.pending = g.pending]]
    /\ UNCHANGED <<instances, environments, components, next_id, cluster_instances, manifests, deployed, last>>

\* The rest of the turn: upsert, then commit, or roll back and note the error.
ConcSyncApply(r) ==
    LET q == requests[r]
        s0 == SessionOf(r)
    IN  /\ q.pc = "sync_apply"
        /\ \E s \in deploy_to_kubernetes(s0, q.comp, q.cluster, q.pending) :
             LET t == CommitOf(s0, s, q.comp, q.pending) IN
             /\ Store(t)
             /\ requests' =
                    [requests EXCEPT ![r] =
                        [q EXCEPT
                            !.pc = "sync",
                            !.todo = @ \ {q.comp},
                            !.comp = 0,
                            !.cluster = NONE,
                            !.pending = {},
                            !.calls = t.calls,
                            !.failed = t.failed,
                            !.synced_components =
                                IF t.raised = NONE THEN @ + 1 ELSE @,
                            !.errors =
                                IF t.raised = NONE THEN @
                                ELSE Append(@, SyncError(q.comp, t.raised))]]
        /\ UNCHANGED <<instances, environments, components, next_id, last>>

\* The loop is over: sync_instance returns its counts.
ConcSyncReturn(r) ==
    LET q == requests[r] IN
    /\ q.pc = "sync"
    /\ q.todo = {}
    /\ last' = [Result("sync", 0, "ok", SessionOf(r), NoRequest) EXCEPT
                  !.synced_components = q.synced_components,
                  !.total_components = q.total_components,
                  !.errors = q.errors]
    /\ requests' = Finished(r)
    /\ UNCHANGED <<instances, environments, components, next_id, cluster_instances, manifests, deployed>>

\* A worker or a cron as a create leaves it: the row with its
\* PlacementRecord and its manifests on the cluster, or, when the create
\* failed at the apply, the row alone.
InitConc ==
    /\ \E component_type \in {"worker", "cron"}, enabled \in BOOLEAN :
         components =
            [c \in CompIds |->
                IF c = 1
                THEN build_application_component_entity(
                         <<"a">>, Settings(1, Exposure("http", 80, "private")),
                         component_type, NONE, enabled)
                ELSE NoRow]
    /\ next_id = 2
    /\ \/ /\ cluster_instances = {}
          /\ manifests = [cl \in Clusters |-> {}]
          /\ deployed = [c \in CompIds |-> IF c = 1 THEN "failed" ELSE "none"]
       \/ /\ cluster_instances = {ClusterInstance("c1", 1)}
          /\ manifests = [cl \in Clusters |-> IF cl = "c1" THEN {1} ELSE {}]
          /\ deployed = [c \in CompIds |-> IF c = 1 THEN "ok" ELSE "none"]
    /\ last = Result("init", 0, "ok", Session({}, <<>>, <<>>), NoRequest)
    /\ requests = [r \in Reqs |-> IdleRequest]
    /\ instances = {"i1"}
    /\ environments = {"e1"}

NextConc ==
    \E r \in Reqs :
        \/ ConcUpdatePlace(r)
        \/ ConcUpdateDeploy(r)
        \/ ConcSyncStart(r)
        \/ ConcSyncPlace(r)
        \/ ConcSyncApply(r)
        \/ ConcSyncReturn(r)

SpecConc == InitConc /\ [][NextConc]_vars

\* ------------------------------------------------------------------ properties
Persisted(c) == components[c].exists

PlacementRecords(c) == find_cluster_instance_by_component_id(cluster_instances, c)

\* The clusters that hold manifests of component c.
ClustersHolding(c) == { cl \in Clusters : c \in manifests[cl] }

\* C1 - deploy atomicity: when the gateway's apply fails during a create or an
\* update, every component that was persisted before the call has, once the
\* call has returned, the enabled, settings and url it had before the call.
C1_DeployAtomicity ==
    [][ (last'.op \in {"create", "update"} /\ last'.apply_failed > 0)
        => \A c \in CompIds :
             Persisted(c) =>
                /\ components'[c].enabled = components[c].enabled
                /\ components'[c].settings = components[c].settings
                /\ components'[c].url = components[c].url ]_vars

\* C2 - placement uniqueness: after any sequence of creates, updates, deletes
\* and syncs run one after another, every component has at most one
\* PlacementRecord, and every record references one registered cluster.
C2_PlacementUniqueness ==
    /\ \A c \in CompIds : Cardinality(PlacementRecords(c)) <= 1
    /\ \A r \in cluster_instances : r.cluster_id \in Clusters

\* A sync or an update has applied a component that already had its record,
\* and the component still has exactly one.
C2_Witness ==
    /\ last.op \in {"update", "sync"}
    /\ last.result = "ok"
    /\ last.apply_calls > 0
    /\ \E c \in CompIds :
         /\ Persisted(c)
         /\ deployed[c] = "ok"
         /\ Cardinality(PlacementRecords(c)) = 1

\* C3 - one cluster per component under concurrency: when requests (updates,
\* syncs), each in its own store transaction, have run get-or-create at the
\* same time for a component without a PlacementRecord, then once all of
\* them have finished the component has at most one PlacementRecord.
C3_OneRecordUnderConcurrency ==
    (\A r \in Reqs : requests[r].pc = "done")
        => \A c \in CompIds : Cardinality(PlacementRecords(c)) <= 1

\* C4 - delete resilience: when the gateway's delete fails during the deletion
\* of a component, the deletion succeeds all the same, and the component row
\* and its PlacementRecord are gone from the store.
C4_DeleteResilience ==
    [][ (last'.op = "delete" /\ last'.delete_failed > 0)
        => /\ last'.result = "ok"
           /\ ~components'[last'.comp].exists
           /\ find_cluster_instance_by_component_id(
                  cluster_instances', last'.comp) = {} ]_vars

\* A deletion whose gateway call failed has returned, leaving the manifests
\* behind on the cluster.
C4_Witness ==
    /\ last.op = "delete"
    /\ last.delete_failed > 0
    /\ last.result = "ok"
    /\ ClustersHolding(last.comp) # {}

\* C5 - sync independence: when exactly one of the N enabled components fails
\* in its placement or apply step, sync does not raise, applies every other
\* enabled component, and returns synced_components = N - 1,
\* total_components = N and one error entry, carrying the failing
\* component's name.
C5_SyncIndependence ==
    [][ (last'.op = "sync" /\ Cardinality(last'.failed) = 1)
        => LET N == Cardinality(EnabledRows) IN
           /\ last'.result = "ok"
           /\ last'.total_components = N
           /\ last'.synced_components = N - 1
           /\ last'.apply_calls - last'.apply_failed = N - 1
           /\ \A c \in EnabledRows \ last'.failed : deployed'[c] = "ok"
           /\ Len(last'.errors) = 1
           /\ \A c \in last'.failed :
                last'.errors[1].component = components[c].name ]_vars

\* A sync of three enabled components in which the second failed and the
\* first and the third were applied.
C5_Witness ==
    /\ last.op = "sync"
    /\ last.failed = {2}
    /\ last.total_components = 3
    /\ last.synced_components = 2
    /\ deployed[1] = "ok" /\ deployed[3] = "ok"

\* C6 - exposure / url coupling: in every state, a persisted webapp has a
\* non-empty url if and only if its exposure type is "http" and its
\* visibility is not "cluster".
C6_ExposureUrlCoupling ==
    \A c \in CompIds :
        (Persisted(c) /\ components[c].type = "webapp")
            => (Truthy(components[c].url) <=> UrlRequired(components[c].settings.exposure))

\* An update has been applied to a webapp and left it with an exposure that
\* takes no url, and with none.
C6_Witness ==
    /\ last.op = "update"
    /\ last.result = "ok"
    /\ last.apply_calls > 0
    /\ Persisted(last.comp)
    /\ components[last.comp].type = "webapp"
    /\ ~UrlRequired(components[last.comp].settings.exposure)
    /\ ~Truthy(components[last.comp].url)

\* C7 - a create or an update of a webapp whose url and resulting exposure
\* disagree fails with a validation error before any change: no component or
\* placement row is created or changed, and nothing is sent to the gateway.
C7_MismatchRejectedBeforeMutation ==
    [][ (last'.op \in {"create", "update"} /\ last'.mismatch)
        => /\ last'.result \in {"validation_error", "invalid_url"}
           /\ UNCHANGED <<components, cluster_instances>>
           /\ last'.apply_calls = 0
           /\ last'.delete_calls = 0 ]_vars

\* C8 - worker / cron privacy: in every state, a persisted worker or cron has
\* an exposure whose visibility is "private".
C8_WorkerCronPrivate ==
    \A c \in CompIds :
        (Persisted(c) /\ components[c].type \in {"worker", "cron"})
            => components[c].settings.exposure.visibility = "private"

\* C9 - the settings a create of a worker or a cron persists have exposure
\* visibility "private", whatever visibility the payload carried.
C9_CreatePersistsPrivate ==
    [][ (last'.op = "create" /\ last'.comp # 0
            /\ components'[last'.comp].type \in {"worker", "cron"})
        => components'[last'.comp].settings.exposure.visibility = "private" ]_vars

\* C10 - in every state, a persisted, enabled component whose last deploy was
\* committed has a PlacementRecord, and its manifests are on the cluster of
\* that record and on no other.
C10_ManifestsOnPlacedCluster ==
    \A c \in CompIds :
        (Persisted(c) /\ components[c].enabled /\ deployed[c] = "ok")
            => \E r \in PlacementRecords(c) : ClustersHolding(c) = {r.cluster_id}

\* An enabled component has been applied again by an update, and its
\* manifests are on the cluster of its record alone.
C10_Witness ==
    /\ last.op = "update"
    /\ last.result = "ok"
    /\ last.apply_calls > 0
    /\ Persisted(last.comp)
    /\ components[last.comp].enabled
    /\ deployed[last.comp] = "ok"
    /\ \E r \in PlacementRecords(last.comp) : ClustersHolding(last.comp) = {r.cluster_id}

\* No persisted component with enabled = false has manifests on a cluster.
DisabledHaveNoManifests ==
    \A c \in CompIds :
        (Persisted(c) /\ ~components[c].enabled) => ClustersHolding(c) = {}

\* C11 - in runs where no gateway delete fails, a component persisted with
\* enabled = false has no manifests on any cluster, one created with
\* enabled = false included: from a state where that is so, every create,
\* update, delete and sync without a failed gateway delete leads to one.
C11_DisabledNotDeployed ==
    [][ (DisabledHaveNoManifests /\ last'.delete_failed = 0)
        => DisabledHaveNoManifests' ]_vars

\* The update of last' changed only enabled, from true to false, on a
\* persisted component.
DisablesOnly ==
    /\ last'.op = "update"
    /\ Persisted(last'.comp)
    /\ components[last'.comp].enabled
    /\ last'.payload.has_enabled /\ ~last'.payload.enabled
    /\ ~last'.payload.has_settings
    /\ last'.payload.url = NONE

\* The component of last' had its PlacementRecord when the request came.
HasPlacement == PlacementRecords(last'.comp) # {}

DisabledByOneDelete ==
    /\ last'.delete_calls = 1
    /\ last'.apply_calls = 0
    /\ components'[last'.comp].exists
    /\ ~components'[last'.comp].enabled

\* C12 - an update that changes only enabled, from true to false, on a
\* component that has a PlacementRecord issues one gateway delete and no
\* apply, and leaves the row persisted with enabled = false.
C12_DisableDeletesOnce ==
    [][ (DisablesOnly /\ HasPlacement) => DisabledByOneDelete ]_vars

\* C12 as stated - every update that changes only enabled, from true to
\* false, issues one gateway delete and no apply, and leaves the row
\* persisted with enabled = false.
C12_AsStated ==
    [][ DisablesOnly => DisabledByOneDelete ]_vars

\* An update has disabled a component that was deployed: its manifests are
\* gone, the row is still there.
C12_Witness ==
    /\ last.op = "update"
    /\ last.result = "ok"
    /\ last.payload.has_enabled /\ ~last.payload.enabled
    /\ ~last.payload.has_settings /\ last.payload.url = NONE
    /\ last.delete_calls = 1 /\ last.delete_failed = 0
    /\ Persisted(last.comp)
    /\ ~components[last.comp].enabled
    /\ deployed[last.comp] = "ok"
    /\ ClustersHolding(last.comp) = {}

\* C13 - when an update changes enabled from true to false and the gateway's
\* delete fails, the update returns success all the same and the component
\* is persisted with enabled = false.
C13_DisableNeverBlocked ==
    [][ (/\ last'.op = "update"
         /\ Persisted(last'.comp)
         /\ components[last'.comp].enabled
         /\ last'.payload.has_enabled /\ ~last'.payload.enabled
         /\ last'.delete_failed > 0)
        => /\ last'.result = "ok"
           /\ components'[last'.comp].exists
           /\ ~components'[last'.comp].enabled ]_vars

\* An update has disabled a component although the gateway's delete failed:
\* the manifests are still on the cluster.
C13_Witness ==
    /\ last.op = "update"
    /\ last.result = "ok"
    /\ last.payload.has_enabled /\ ~last.payload.enabled
    /\ last.delete_failed = 1
    /\ Persisted(last.comp)
    /\ ~components[last.comp].enabled
    /\ ClustersHolding(last.comp) # {}

\* C14 - a create that succeeds leaves one new component row, one
\* PlacementRecord for it, on the cluster the selector returned (the one the
\* apply was sent to), and has issued one apply and no delete.
C14_CreateSucceeds ==
    [][ (last'.op = "create" /\ last'.result = "ok")
        => LET c == last'.comp IN
           /\ ~Persisted(c) /\ components'[c].exists
           /\ \A d \in CompIds \ {c} : components'[d] = components[d]
           /\ Cardinality(find_cluster_instance_by_component_id(
                              cluster_instances', c)) = 1
           /\ \A r \in find_cluster_instance_by_component_id(cluster_instances', c) :
                /\ last'.selected = {Target(c, r.cluster_id)}
                /\ last'.targets = {Target(c, r.cluster_id)}
           /\ cluster_instances' \ find_cluster_instance_by_component_id(
                                       cluster_instances', c) = cluster_instances
           /\ last'.apply_calls = 1
           /\ last'.delete_calls = 0 ]_vars

\* A create has succeeded: the row is there, placed, and deployed.
C14_Witness ==
    /\ last.op = "create"
    /\ last.result = "ok"
    /\ Persisted(last.comp)
    /\ PlacementRecords(last.comp) # {}
    /\ ClustersHolding(last.comp) # {}

\* The update of last' left an enabled component enabled and carried
\* settings or a url other than the ones persisted.
ChangesWhileEnabled ==
    /\ last'.op = "update"
    /\ Persisted(last'.comp)
    /\ components[last'.comp].enabled
    /\ ~(last'.payload.has_enabled /\ ~last'.payload.enabled)
    /\ \/ /\ last'.payload.has_settings
          /\ last'.payload.settings # components[last'.comp].settings
       \/ /\ last'.payload.url # NONE
          /\ last'.payload.url # components[last'.comp].url

RedeployedOnce ==
    /\ last'.apply_calls = 1
    /\ last'.delete_calls = 0
    /\ last'.steps = <<"gateway_apply">>

ChangesNothingWhileEnabled ==
    /\ last'.op = "update"
    /\ last'.result # "not_found"
    /\ Persisted(last'.comp)
    /\ components[last'.comp].enabled
    /\ ~(last'.payload.has_enabled /\ ~last'.payload.enabled)
    /\ last'.payload.has_settings
          => last'.payload.settings = components[last'.comp].settings
    /\ last'.payload.url # NONE
          => last'.payload.url = components[last'.comp].url

\* C16 - an update that leaves the component enabled and changes no tracked
\* field (its payload repeats enabled = true, or is empty) makes no gateway
\* call.
C16_NoChangeNoCall ==
    [][ ChangesNothingWhileEnabled
        => /\ last'.apply_calls = 0
           /\ last'.delete_calls = 0 ]_vars

\* C17 - an update that is accepted changes exactly the fields its payload
\* carries: enabled, settings and url each end with the payload's value when
\* the payload has the field and with the value they had when it has not,
\* and name and type stay as they were.
C17_OnlyPayloadFieldsChange ==
    [][ (last'.op = "update" /\ last'.result = "ok" /\ Persisted(last'.comp))
        => LET old == components[last'.comp]
               new == components'[last'.comp]
               dto == last'.payload
           IN  /\ new.exists
               /\ new.name = old.name
               /\ new.type = old.type
               /\ new.enabled = IF dto.has_enabled THEN dto.enabled ELSE old.enabled
               /\ new.settings = IF dto.has_settings THEN dto.settings
                                 ELSE old.settings
               /\ new.url = IF dto.url # NONE THEN dto.url ELSE old.url ]_vars

\* C18 - a create or an update of a webapp whose settings ask for an
\* exposure type or a visibility the cluster does not support is rejected as
\* invalid input: no component or placement row is created or changed, and
\* no apply is issued.
C18_UnsupportedRejected ==
    [][ (last'.op \in {"create", "update"} /\ last'.unsupported)
        => /\ last'.result \in {"invalid_exposure_type", "invalid_visibility"}
           /\ UNCHANGED <<components, cluster_instances>>
           /\ last'.apply_calls = 0 ]_vars

\* C19 - placement stability: for a component that has a PlacementRecord,
\* an update or a sync does not ask the selector about it and sends every
\* gateway call for it to the record's cluster, and, until the component is
\* deleted, no request changes its record.
C19_PlacementStability ==
    [][ \A c \in CompIds :
          PlacementRecords(c) # {}
          => /\ last'.op \in {"update", "sync"}
                => /\ \A a \in last'.selected : a.comp # c
                   /\ \A t \in last'.targets :
                        t.comp = c
                        => \E r \in PlacementRecords(c) : t.cluster = r.cluster_id
             /\ ~(last'.op = "delete" /\ last'.comp = c)
                => find_cluster_instance_by_component_id(cluster_instances', c)
                     = PlacementRecords(c) ]_vars

\* An update or a sync has applied a component that had its record: to the
\* cluster of the record, without a call of the selector.
C19_Witness ==
    /\ last.op \in {"update", "sync"}
    /\ last.result = "ok"
    /\ last.selected = {}
    /\ \E c \in CompIds :
         /\ Persisted(c)
         /\ Target(c, "c2") \in last.targets
         /\ PlacementRecords(c) = {ClusterInstance("c2", c)}
         /\ ClustersHolding(c) = {"c2"}

\* C20 - delete ordering: the deletion of a component that has a
\* PlacementRecord calls the gateway's delete first, then removes the
\* record, and removes the component row last; the deletion of a component
\* without a record makes no gateway call and removes the row all the same.
C20_DeleteOrdering ==
    [][ (last'.op = "delete" /\ last'.result # "not_found")
        => LET c == last'.comp IN
           /\ ~components'[c].exists
           /\ find_cluster_instance_by_component_id(cluster_instances', c) = {}
           /\ IF PlacementRecords(c) # {}
              THEN /\ last'.steps = <<"gateway_delete", "delete_cluster_instance",
                                       "delete">>
                   /\ last'.delete_calls = 1
                   /\ \A t \in last'.targets :
                        \E r \in PlacementRecords(c) : t = Target(c, r.cluster_id)
              ELSE /\ last'.steps = <<"delete">>
                   /\ last'.delete_calls = 0
           /\ last'.apply_calls = 0 ]_vars

\* A component that had a record has been deleted: its manifests, its record
\* and its row are gone.
C20_Witness ==
    /\ last.op = "delete"
    /\ last.result = "ok"
    /\ last.steps = <<"gateway_delete", "delete_cluster_instance", "delete">>
    /\ last.delete_failed = 0
    /\ ~Persisted(last.comp)
    /\ PlacementRecords(last.comp) = {}
    /\ ClustersHolding(last.comp) = {}

\* A component that had no record has been deleted without a gateway call.
C20_WitnessNoRecord ==
    /\ last.op = "delete"
    /\ last.result = "ok"
    /\ last.steps = <<"delete">>
    /\ ~Persisted(last.comp)

\* The components a gateway call of last' was for, and those the selector
\* was asked about.
CalledFor == { t.comp : t \in last'.targets }

AskedFor == { a.comp : a \in last'.selected }

\* The enabled components that had their PlacementRecord when the sync came.
SyncPlaced == { c \in EnabledRows : PlacementRecords(c) # {} }

SyncServed == last'.op = "sync" /\ last'.result # "instance_not_found"

\* C21 - sync_instance attempts the enabled components of the instance and
\* no other: every enabled component has its PlacementRecord or is put to
\* the selector, one apply is issued for each enabled component that has a
\* PlacementRecord and at most one for any other enabled component, no
\* gateway call (apply or delete) and no selection is made for a disabled
\* component, and total_components is the number of enabled components.
C21_SyncAttemptsEnabled ==
    [][ SyncServed
        => /\ \A c \in EnabledRows : PlacementRecords(c) # {} \/ c \in AskedFor
           /\ SyncPlaced \subseteq CalledFor
           /\ CalledFor \subseteq EnabledRows
           /\ last'.apply_calls = Cardinality(CalledFor)
           /\ AskedFor \subseteq EnabledRows
           /\ last'.delete_calls = 0
           /\ last'.total_components = Cardinality(EnabledRows) ]_vars

\* C21 as stated - sync_instance issues one apply for every enabled
\* component and no gateway call for a disabled one, and total_components
\* is the number of enabled components.
C21_AsStated ==
    [][ SyncServed
        => /\ CalledFor = EnabledRows
           /\ last'.apply_calls = Cardinality(EnabledRows)
           /\ last'.delete_calls = 0
           /\ last'.total_components = Cardinality(EnabledRows) ]_vars

\* A sync of an instance with two enabled components and a disabled one
\* that has a PlacementRecord: two applies, none for the disabled one.
C21_Witness ==
    /\ last.op = "sync"
    /\ last.result = "ok"
    /\ last.total_components = 2
    /\ last.apply_calls = 2
    /\ \E c \in CompIds :
         /\ Persisted(c) /\ ~components[c].enabled
         /\ PlacementRecords(c) # {}
         /\ \A t \in last.targets : t.comp # c

\* An enabled component whose last create or update failed at the deploy.
LeftUndeployed(c) ==
    Persisted(c) /\ components[c].enabled /\ deployed[c] = "failed"

\* In the sync of last' every call of the selector returned a cluster and no
\* gateway call failed.
SelectorAndGatewaySucceed ==
    /\ SyncServed
    /\ \A a \in last'.selected : a.cluster # NONE
    /\ last'.apply_failed = 0

\* C22 - recovery by sync: a sync_instance during which the selector and
\* the gateway succeed leaves every enabled component that a failed create
\* or update had left undeployed with a persisted PlacementRecord and with
\* its manifests on the cluster of that record.
C22_RecoveryBySync ==
    [][ SelectorAndGatewaySucceed
        => \A c \in CompIds :
             LeftUndeployed(c)
             => \E r \in find_cluster_instance_by_component_id(cluster_instances', c) :
                  c \in manifests'[r.cluster_id] ]_vars

\* C23 - a gateway apply failure is fatal to the create or the update that
\* triggered it: the call does not report success, what its session had not
\* committed is rolled back (no PlacementRecord is added, no manifest
\* changes), and the failure it raises is the deploy failure that names the
\* cluster the apply was sent to and wraps the gateway's error.
C23_ApplyFailureIsFatal ==
    [][ (last'.op \in {"create", "update"} /\ last'.apply_failed > 0)
        => /\ last'.result = "deploy_failed"
           /\ last'.targets = {Target(last'.comp, last'.named)}
           /\ last'.named \in Clusters
           /\ last'.wrapped = "gateway_error"
           /\ cluster_instances' = cluster_instances
           /\ manifests' = manifests ]_vars

\* An update of a placed, deployed component has failed at the apply.
C23_Witness ==
    /\ last.op = "update"
    /\ last.result = "deploy_failed"
    /\ last.apply_failed = 1
    /\ last.named \in Clusters
    /\ PlacementRecords(last.comp) = {ClusterInstance(last.named, last.comp)}
    /\ deployed[last.comp] = "failed"

\* The request of last' left the store and the clusters as they were and
\* called neither the selector nor the gateway.
NoEffect ==
    /\ UNCHANGED <<components, cluster_instances, manifests>>
    /\ last'.apply_calls = 0
    /\ last'.delete_calls = 0
    /\ last'.selected = {}

\* C24 - an operation on a missing resource fails and has no effect: a get,
\* an update or a delete of a component uuid the store does not have raises
\* the kind's NotFound, a create for an instance the store does not have
\* raises InstanceNotFound, unless the input validation, which runs first,
\* raises its validation error; in each case the store is unchanged and
\* neither the selector nor the gateway is called.
C24_MissingResourceNotFound ==
    [][ /\ (last'.op \in {"get", "update", "delete"} /\ ~Persisted(last'.comp))
           => /\ last'.result \in {"not_found", "validation_error"}
              /\ NoEffect
        /\ (last'.op = "create" /\ last'.missing)
           => /\ last'.result \in {"instance_not_found", "validation_error"}
              /\ NoEffect ]_vars

\* C24 as stated - every get, update and delete of a component uuid the
\* store does not have raises NotFound and every create for an instance the
\* store does not have raises InstanceNotFound, with no effect.
C24_AsStated ==
    [][ /\ (last'.op \in {"get", "update", "delete"} /\ ~Persisted(last'.comp))
           => (last'.result = "not_found" /\ NoEffect)
        /\ (last'.op = "create" /\ last'.missing)
           => (last'.result = "instance_not_found" /\ NoEffect) ]_vars

\* A delete of a uuid the store does not have has been refused while
\* another component is deployed.
C24_Witness ==
    /\ last.op = "delete"
    /\ last.result = "not_found"
    /\ ~Persisted(last.comp)
    /\ \E c \in CompIds : Persisted(c) /\ ClustersHolding(c) # {}

\* A create for an instance the store does not have has been refused.
C24_WitnessCreate ==
    /\ last.op = "create"
    /\ last.missing
    /\ last.result = "instance_not_found"

\* ------------------------------------------------ the exposure default rule
\* Settings documents handed to ensure_private_exposure_settings: cpu and
\* memory stand for the keys outside exposure (memory = 0: no such key); the
\* exposure key is absent, None, or an object with or without a visibility.
MemoryValues == {0, 128, 256}

PortValues == {80, 8080}

SettingsDocuments ==
    { [cpu |-> cpu, memory |-> memory, exposure |-> e] :
        cpu \in {1, 2}, memory \in MemoryValues,
        e \in {NoExposure, NullExposure}
              \cup { Exposure(t, p, v) : t \in {"http", "tcp"}, p \in PortValues,
                                        v \in VisibilityType \cup {NONE} } }

InitSettings ==
    /\ components = [c \in CompIds |-> NoRow]
    /\ next_id = 1
    /\ cluster_instances = {}
    /\ manifests = [cl \in Clusters |-> {}]
    /\ deployed = [c \in CompIds |-> "none"]
    /\ requests = [r \in Reqs |-> IdleRequest]
    /\ instances = {"i1"}
    /\ environments = {"e1"}
    /\ \E settings_dict \in SettingsDocuments :
         last = [op |-> "document", settings_dict |-> settings_dict,
                 result |-> settings_dict]

\* The helper is called on the document.
EnsureSettings ==
    /\ last.op = "document"
    /\ last' = [op |-> "ensured", settings_dict |-> last.settings_dict,
                result |-> ensure_private_exposure_settings(last.settings_dict)]
    /\ UNCHANGED <<components, next_id, cluster_instances, manifests, deployed,
                   requests, instances, environments>>

NextSettings == EnsureSettings

SpecSettings == InitSettings /\ [][NextSettings]_vars

\* The document has no exposure sub-object: no exposure key, or None for it.
LacksExposure(settings_dict) ==
    settings_dict.exposure \in {NoExposure, NullExposure}

C25_BuilderRuleOnObjects ==
    last.op = "ensured" =>
        LET d == last.settings_dict
            r == last.result
        IN  IF d.exposure = NullExposure THEN r = TypeError
            ELSE /\ r # TypeError
                 /\ r.cpu = d.cpu
                 /\ r.memory = d.memory
                 /\ d.exposure = NoExposure
                      => r.exposure = Exposure("http", 80, "private")
                 /\ (d.exposure # NoExposure /\ d.exposure.visibility = NONE)
                      => r.exposure = [d.exposure EXCEPT !.visibility = "private"]
                 /\ (d.exposure # NoExposure /\ d.exposure.visibility # NONE)
                      => r.exposure = d.exposure

\* The helper has filled in the visibility of a tcp exposure that had none.
C25_Witness ==
    /\ last.op = "ensured"
    /\ last.settings_dict.exposure = Exposure("tcp", 8080, NONE)
    /\ last.result.exposure = Exposure("tcp", 8080, "private")
    /\ last.result.memory = 256

\* ------------------------------------------ instance and environment removal
\* instance.components: every component row belongs to instance i1.
instance_components(uuid) ==
    IF uuid = "i1" THEN { c \in CompIds : components[c].exists } ELSE {}

\* What DELETE FROM instances WHERE id = ... leaves, as the schema of the
\* component rows decides: the statement alone when nothing refers to the
\* instance; with component rows referring to it, the store refuses it, or
\* removes the instance row alone, or removes the component rows with it
\* (their PlacementRecords have a plain foreign key, so only rows without a
\* record can go this way).  No row of cluster_instances is touched.
delete_by_id(uuid) ==
    LET owned == instance_components(uuid)
        gone == [raised |-> NONE, instances |-> instances \ {uuid},
                 components |-> components]
    IN  IF owned = {} THEN {gone}
        ELSE {[gone EXCEPT !.raised = "delete_failed", !.instances = instances],
              gone}
             \cup IF \E c \in owned :
                       find_cluster_instance_by_component_id(cluster_instances, c) # {}
                  THEN {}
                  ELSE {[gone EXCEPT !.components =
                            [c \in CompIds |-> IF c \in owned THEN NoRow
                                               ELSE components[c]]]}

\* InstanceService.delete_instance
delete_instance ==
    \E uuid \in InstanceUuids :
        IF ~validate_instance_exists(uuid)
        THEN Reject("delete_instance", 0, "instance_not_found",
                    UnknownInstance(Naming(uuid)))
        ELSE \E o \in delete_by_id(uuid) :
               /\ instances' = o.instances
               /\ components' = o.components
               /\ UNCHANGED <<next_id, cluster_instances, manifests, deployed,
                              requests, environments>>
               /\ last' = Result("delete_instance", 0,
                                 IF o.raised = NONE THEN "ok" ELSE o.raised,
                                 Session(cluster_instances, manifests, deployed),
                                 Naming(uuid))

\* A query that finds no component under any environment.
find_components_by_environment_id_none(uuid) ==
    {}

\* The component rows joined to the instances rows of the environment
\* (instance i1 is the one instance of environment e1).
find_components_by_environment_id(uuid) ==
    IF uuid = "e1" /\ "i1" \in instances
    THEN { c \in CompIds : components[c].exists }
    ELSE {}

\* NONE when the environment can be deleted, else the error raised.
validate_environment_can_be_deleted(uuid) ==
    IF uuid \notin environments THEN "environment_not_found"
    ELSE IF find_components_by_environment_id(uuid) # {}
         THEN "environment_has_components"
         ELSE NONE

\* EnvironmentService.delete_environment; repository.delete removes the row,
\* or the store refuses it because cluster rows refer to the environment.
delete_environment ==
    \E uuid \in EnvironmentUuids :
        LET error == validate_environment_can_be_deleted(uuid) IN
        IF error # NONE
        THEN Reject("delete_environment", 0, error, Naming(uuid))
        ELSE \/ Reject("delete_environment", 0, "integrity_error", Naming(uuid))
             \/ /\ environments' = environments \ {uuid}
                /\ UNCHANGED <<components, next_id, cluster_instances, manifests,
                               deployed, requests, instances>>
                /\ last' = Result("delete_environment", 0, "ok",
                                  Session(cluster_instances, manifests, deployed),
                                  Naming(uuid))

\* Stores a removal can meet: rows as a reconciler meets them, each with or
\* without a PlacementRecord, the manifests of every enabled component that
\* has one held by its cluster.
InitTeardown ==
    /\ components \in
         { rows \in [CompIds -> UNION { SeedRows(c) : c \in CompIds } \cup {NoRow}] :
             \A c \in CompIds : rows[c] \in SeedRows(c) \cup {NoRow} }
    /\ next_id = MaxComponents + 1
    /\ \E placed \in [CompIds -> Clusters \cup {NONE}] :
         /\ \A c \in CompIds : ~components[c].exists => placed[c] = NONE
         /\ cluster_instances =
                { ClusterInstance(placed[c], c) : c \in { d \in CompIds : placed[d] # NONE } }
         /\ manifests =
                [cl \in Clusters |->
                    { c \in CompIds : placed[c] = cl /\ components[c].enabled }]
         /\ deployed =
                [c \in CompIds |->
                    IF placed[c] # NONE /\ components[c].enabled THEN "ok"
                    ELSE "none"]
    /\ last = Result("init", 0, "ok", Session({}, <<>>, <<>>), NoRequest)
    /\ requests = [r \in Reqs |-> IdleRequest]
    /\ instances = {"i1"}
    /\ environments = {"e1"}

NextTeardown ==
    \/ delete_instance
    \/ delete_environment

SpecTeardown == InitTeardown /\ [][NextTeardown]_vars

\* C26 - environment deletion is blocked while a component exists under it:
\* a delete_environment of a stored environment fails with
\* EnvironmentHasComponentsError and leaves the environment, and everything
\* else, in the store whenever a component belongs to an instance of it.
C26_EnvironmentDeletionBlocked ==
    [][ (/\ last'.op = "delete_environment"
         /\ last'.uuid \in environments
         /\ \E c \in CompIds : Persisted(c) /\ "i1" \in instances /\ last'.uuid = "e1")
        => /\ last'.result = "environment_has_components"
           /\ UNCHANGED <<environments, instances, components, cluster_instances,
                          manifests>>
           /\ last'.delete_calls = 0 ]_vars

\* The deletion of the environment has been refused while a deployed
\* component belongs to its instance.
C26_Witness ==
    /\ last.op = "delete_environment"
    /\ last.result = "environment_has_components"
    /\ last.uuid \in environments
    /\ "i1" \in instances
    /\ \E c \in CompIds : Persisted(c) /\ ClustersHolding(c) # {}

\* C27 - delete_instance on an instance that owns components deletes every
\* one of them through delete_component (one gateway delete for each
\* component that has a PlacementRecord, the record removed, the row
\* removed) before the instance row: afterwards the instance is gone, none
\* of its components and PlacementRecords is in the store and no cluster
\* holds their manifests.
C27_DeleteInstanceDeletesComponents ==
    [][ (/\ last'.op = "delete_instance"
         /\ last'.uuid \in instances
         /\ instance_components(last'.uuid) # {})
        => /\ last'.result = "ok"
           /\ last'.uuid \notin instances'
           /\ \A c \in instance_components(last'.uuid) :
                /\ ~components'[c].exists
                /\ find_cluster_instance_by_component_id(cluster_instances', c) = {}
                /\ \A cl \in Clusters : c \notin manifests'[cl]
           /\ last'.delete_calls =
                Cardinality({ c \in instance_components(last'.uuid) :
                                PlacementRecords(c) # {} }) ]_vars

\* The update of last' was served on a persisted, disabled component: it
\* was found and its fields were accepted.
UpdatesDisabled ==
    /\ last'.op = "update"
    /\ Persisted(last'.comp)
    /\ ~components[last'.comp].enabled
    /\ last'.result \notin {"not_found", "validation_error", "invalid_url"}

\* ... and leaves it disabled, with settings other than the persisted ones.
ChangesSettingsWhileDisabled ==
    /\ UpdatesDisabled
    /\ ~(last'.payload.has_enabled /\ last'.payload.enabled)
    /\ last'.payload.has_settings
    /\ last'.payload.settings # components[last'.comp].settings

\* ... and enables it.
Reenables ==
    /\ UpdatesDisabled
    /\ last'.payload.has_enabled /\ last'.payload.enabled

PersistedWithoutCall ==
    /\ components'[last'.comp].exists
    /\ ~components'[last'.comp].enabled
    /\ components'[last'.comp].settings = last'.payload.settings
    /\ last'.apply_calls = 0
    /\ last'.delete_calls = 0
    /\ last'.targets = {}

\* One apply, rendered from the settings the store holds after the update:
\* the payload's when it carried settings, the ones persisted before if not.
AppliedOnceWithLatest ==
    /\ last'.apply_calls = 1
    /\ last'.delete_calls = 0
    /\ components'[last'.comp].enabled
    /\ last'.carried = components'[last'.comp].settings
    /\ last'.carried = IF last'.payload.has_settings THEN last'.payload.settings
                       ELSE components[last'.comp].settings

\* C28 - an update that changes the settings of a disabled component and
\* leaves it disabled persists the new settings and makes no gateway call;
\* an update that re-enables a disabled component that has a PlacementRecord
\* issues exactly one apply, which carries the latest persisted settings.
C28_DisabledSettingsApplyOnReenable ==
    [][ /\ ChangesSettingsWhileDisabled => PersistedWithoutCall
        /\ (Reenables /\ HasPlacement) => AppliedOnceWithLatest ]_vars

\* C28 as stated - the same, for every disabled component: each update that
\* re-enables one issues exactly one apply with the latest settings.
C28_AsStated ==
    [][ /\ ChangesSettingsWhileDisabled => PersistedWithoutCall
        /\ Reenables => AppliedOnceWithLatest ]_vars

\* A disabled, placed component has been re-enabled by an update without
\* settings, and the apply carried settings that an earlier update had set.
C28_Witness ==
    /\ last.op = "update"
    /\ last.result = "ok"
    /\ last.payload.has_enabled /\ last.payload.enabled
    /\ ~last.payload.has_settings
    /\ last.apply_calls = 1
    /\ Persisted(last.comp)
    /\ components[last.comp].type = "worker"
    /\ last.carried = Settings(1, Exposure("http", 80, "public"))
    /\ ClustersHolding(last.comp) # {}

\* C29 - when the apply fails during a create, the create fails, the
\* component row stays persisted and no PlacementRecord of that component is
\* persisted: the record added before the apply goes with the rollback.
C29_FailedCreateKeepsRowOnly ==
    [][ (last'.op = "create" /\ last'.apply_failed > 0)
        => LET c == last'.comp IN
           /\ last'.result = "deploy_failed"
           /\ ~Persisted(c)
           /\ components'[c].exists
           /\ find_cluster_instance_by_component_id(cluster_instances', c) = {}
           /\ cluster_instances' = cluster_instances
           /\ \A cl \in Clusters : c \notin manifests'[cl] ]_vars

\* A create of an enabled worker has failed at the apply: its row is in the
\* store, without a PlacementRecord and without manifests.
C29_Witness ==
    /\ last.op = "create"
    /\ last.result = "deploy_failed"
    /\ last.apply_failed = 1
    /\ last.selected # {}
    /\ Persisted(last.comp)
    /\ components[last.comp].enabled
    /\ PlacementRecords(last.comp) = {}
    /\ ClustersHolding(last.comp) = {}

\* C30 - when the Placement Selector finds no eligible cluster during a
\* create, the create fails and nothing is persisted: no component row, no
\* PlacementRecord, and no apply is issued.
C30_NoClusterNothingPersisted ==
    [][ (last'.op = "create" /\ last'.result = "no_cluster")
        => /\ UNCHANGED <<components, cluster_instances, manifests, next_id>>
           /\ last'.apply_calls = 0
           /\ last'.delete_calls = 0
           /\ last'.targets = {} ]_vars

\* A create has failed for want of a cluster and the store is still empty.
C30_Witness ==
    /\ last.op = "create"
    /\ last.result = "no_cluster"
    /\ \A c \in CompIds : ~Persisted(c)
    /\ cluster_instances = {}
    /\ next_id = 1

\* ------------------------------------------------- the environment settings
\* Settings rows of the instance's environment: per key, its value, or NONE
\* when the environment has no row with that key.
SettingKeys == {"A", "B", "C"}

SettingValues == {"1", "2"}

SettingsRows == [SettingKeys -> SettingValues \cup {NONE}]

NoSettings == [k \in SettingKeys |-> NONE]

\* The rows as a list: the keys that have one.
RowKeys(rows) == { k \in SettingKeys : rows[k] # NONE }

\* serialize_settings on the list of rows: the flat map of key to value.
serialize_settings(rows) == rows

\* repository.find_settings_by_environment_id(...).all(), serialized: what
\* deploy_to_kubernetes hands to the kind's upsert function.
deploy_settings_serialized(rows) ==
    { serialize_settings(rows) }

\* query(Settings).filter(environment_id == ...).first(), serialized when
\* there is a row: what sync_instance hands to the upsert functions.  first()
\* gives one row, any of them (no order is asked for); the serializer, made
\* for a list, either takes the one row or raises on it.
sync_settings_serialized(rows) ==
    IF RowKeys(rows) = {} THEN { NoSettings }
    ELSE { [k \in SettingKeys |-> IF k = first THEN rows[k] ELSE NONE] :
             first \in RowKeys(rows) }
         \cup { TypeError }

\* No call has loaded the settings yet.
NotLoaded == [loaded |-> FALSE]

InitRender ==
    /\ components = [c \in CompIds |-> NoRow]
    /\ next_id = 1
    /\ cluster_instances = {}
    /\ manifests = [cl \in Clusters |-> {}]
    /\ deployed = [c \in CompIds |-> "none"]
    /\ requests = [r \in Reqs |-> IdleRequest]
    /\ instances = {"i1"}
    /\ environments = {"e1"}
    /\ \E rows \in SettingsRows :
         last = [op |-> "settings", rows |-> rows,
                 sync |-> NotLoaded, deploy |-> NotLoaded]

\* sync_instance loads and serializes the settings of the environment.
SyncLoadsSettings ==
    /\ last.sync = NotLoaded
    /\ \E settings_serialized \in sync_settings_serialized(last.rows) :
         last' = [last EXCEPT !.sync = settings_serialized]
    /\ UNCHANGED <<components, next_id, cluster_instances, manifests, deployed,
                   requests, instances, environments>>

\* deploy_to_kubernetes loads and serializes them.
DeployLoadsSettings ==
    /\ last.deploy = NotLoaded
    /\ \E settings_serialized \in deploy_settings_serialized(last.rows) :
         last' = [last EXCEPT !.deploy = settings_serialized]
    /\ UNCHANGED <<components, next_id, cluster_instances, manifests, deployed,
                   requests, instances, environments>>

NextRender ==
    \/ SyncLoadsSettings
    \/ DeployLoadsSettings

SpecRender == InitRender /\ [][NextRender]_vars

\* C31 - sync uses the manifest-rendering input of deploy: for every set of
\* Settings rows of the environment, the settings sync_instance passes to the
\* upsert function are the ones deploy_to_kubernetes passes, the
\* serialization of all the rows.
C31_SyncRendersAsDeploy ==
    (last.sync # NotLoaded /\ last.deploy # NotLoaded)
        => (last.sync = last.deploy /\ last.sync = serialize_settings(last.rows))

\* ------------------------------------------------- ensure, called in a row
\* A ClusterInstance object of the session: the row's columns and the call
\* of ensure that built it (0: it was in the store before the session).
Made(r, n) ==
    [cluster_id |-> r.cluster_id,
     application_component_id |-> r.application_component_id, made |-> n]

Untagged(t) == ClusterInstance(t.cluster_id, t.application_component_id)

\* The calls of ensure made in a row.
EnsureCalls == {1, 2}

\* db.commit() of a session that holds the pending records: they become
\* rows, unless two of them carry the same cluster and component
\* (UniqueConstraint), which fails the flush and rolls all of them back.
session_commit(ci, pending) ==
    IF \E a, b \in pending : a # b /\ Untagged(a) = Untagged(b)
    THEN [raised |-> "integrity_error", ci |-> ci]
    ELSE [raised |-> NONE, ci |-> ci \cup { Untagged(t) : t \in pending }]

\* A session about to call ensure for a component that exists, with or
\* without a PlacementRecord.
InitEnsure ==
    /\ \E c \in CompIds, enabled \in BOOLEAN :
         /\ components =
                [d \in CompIds |->
                    IF d = c
                    THEN build_application_component_entity(
                             SeedName(c), Settings(1, Exposure("http", 80, "private")),
                             "worker", NONE, enabled)
                    ELSE NoRow]
         /\ \E stored \in {{}} \cup { {ClusterInstance(cl, c)} : cl \in Clusters } :
              /\ cluster_instances = stored
              /\ last = [op |-> "ensure", comp |-> c, raised |-> NONE,
                         identity |-> { Made(r, 0) : r \in stored },
                         pending |-> {}, returned |-> <<>>, asked |-> <<>>,
                         commits |-> 0]
    /\ next_id = MaxComponents + 1
    /\ manifests = [cl \in Clusters |-> {}]
    /\ deployed = [c \in CompIds |-> "none"]
    /\ requests = [r \in Reqs |-> IdleRequest]
    /\ instances = {"i1"}
    /\ environments = {"e1"}

\* ensure_cluster_instance(repository, component, cluster): the query sees
\* the rows of the store, not what the session has added and not flushed.
EnsureCalled ==
    /\ last.op = "ensure"
    /\ last.raised = NONE
    /\ Len(last.returned) + 1 \in EnsureCalls
    /\ \E cluster \in Clusters :
       \E e \in ensure_cluster_instance(cluster_instances, last.comp, cluster) :
         LET n == Len(last.returned) + 1
             new == Made(ClusterInstance(cluster, last.comp), n)
         IN  IF e.pending = {}
             THEN \E t \in last.identity :
                    /\ Untagged(t) = ClusterInstance(e.cluster, last.comp)
                    /\ last' = [last EXCEPT !.returned = Append(@, t),
                                            !.asked = Append(@, cluster)]
             ELSE last' = [last EXCEPT !.returned = Append(@, new),
                                       !.asked = Append(@, cluster),
                                       !.pending = @ \cup {new}]
    /\ UNCHANGED <<components, next_id, cluster_instances, manifests, deployed,
                   requests, instances, environments>>

\* db.commit() by the caller, between the calls or after them.
SessionCommitted ==
    /\ last.op = "ensure"
    /\ last.raised = NONE
    /\ last.pending # {}
    /\ LET o == session_commit(cluster_instances, last.pending) IN
         /\ cluster_instances' = o.ci
         /\ last' = [last EXCEPT
                       !.raised = o.raised,
                       !.identity = IF o.raised = NONE THEN @ \cup last.pending
                                    ELSE @,
                       !.pending = {},
                       !.commits = @ + 1]
    /\ UNCHANGED <<components, next_id, manifests, deployed, requests,
                   instances, environments>>

NextEnsure ==
    \/ EnsureCalled
    \/ SessionCommitted

SpecEnsure == InitEnsure /\ [][NextEnsure]_vars

\* Two calls have been made and the session holds nothing uncommitted.
EnsuredTwice == Len(last.returned) = 2 /\ last.pending = {}

OneRecordOfFirstCall ==
    /\ last.returned[1] = last.returned[2]
    /\ PlacementRecords(last.comp) = {Untagged(last.returned[1])}

\* C32 - ensure(component, cluster) is idempotent: two calls in a row for
\* the same component, with the same or another cluster, with or without a
\* commit in between, return the same PlacementRecord, and once the session
\* is committed the component has exactly one PlacementRecord, the one the
\* first call returned.
C32_EnsureIdempotent ==
    EnsuredTwice => OneRecordOfFirstCall

\* The same with a commit between the two calls, or a record in the store
\* before the first: then the second call finds the row.
C32_EnsureIdempotentOnceStored ==
    (EnsuredTwice /\ last.returned[2].made # 2) => OneRecordOfFirstCall

\* The components the gateway calls of last' were made for.
TargetComps == { t.comp : t \in last'.targets }

\* C33 - no gateway operation is retried: a create issues at most one apply,
\* an update at most one gateway call in all (an apply or a delete), a
\* delete at most one delete, and a sync at most one apply for each enabled
\* component and none for the others, also when the call fails.
C33_NoRetry ==
    [][ /\ last'.apply_failed <= last'.apply_calls
        /\ last'.delete_failed <= last'.delete_calls
        /\ last'.op = "create" => (last'.apply_calls <= 1 /\ last'.delete_calls = 0)
        /\ last'.op = "update" => last'.apply_calls + last'.delete_calls <= 1
        /\ last'.op = "delete" => (last'.delete_calls <= 1 /\ last'.apply_calls = 0)
        /\ last'.op = "sync"
             => /\ last'.delete_calls = 0
                /\ TargetComps \subseteq EnabledRows
                /\ last'.apply_calls = Cardinality(TargetComps) ]_vars

\* An update's apply has failed and was sent once.
C33_Witness ==
    /\ last.op = "update"
    /\ last.result = "deploy_failed"
    /\ last.apply_failed = 1
    /\ last.apply_calls = 1
    /\ last.delete_calls = 0
    /\ Persisted(last.comp)

\* ---------------------------------------------------------------------
\* Request r, an update, makes its gateway call and ends in this step.
UpdateEnds(r) ==
    requests[r].pc = "update_deploy" /\ requests'[r].pc = "done"

\* C34 - Two concurrent updates of one enabled component are not serialized.
\* Each update that ends with a successful apply has put on the cluster the
\* manifests rendered from the settings it holds itself, and the row in the
\* store carries the settings of the update that wrote it last; nothing ties
\* the two orders together (the witness: both updates applied, the store
\* holds the settings of one and the cluster the manifests of the other).
C34_StoreOfLastWriterClusterOfLastApply ==
    [][ \A r \in Reqs :
          UpdateEnds(r)
            => /\ requests'[r].applied_last
                    => /\ last'.apply_calls > 0
                       /\ last'.carried = requests'[r].settings
               /\ \A q \in Reqs :
                    (requests'[q].op = "update" /\ requests'[q].wrote_last)
                        => components'[requests'[q].comp].settings
                               = requests'[q].settings ]_vars

AppliedOk(r) ==
    /\ requests[r].pc = "done"
    /\ requests[r].op = "update"
    /\ requests[r].result = "ok"
    /\ requests[r].calls.apply = 1

C34_Witness ==
    \E a, b \in Reqs :
        /\ a # b
        /\ AppliedOk(a) /\ AppliedOk(b)
        /\ requests[a].comp = requests[b].comp
        /\ components[requests[a].comp].enabled
        /\ requests[a].wrote_last /\ ~requests[a].applied_last
        /\ requests[b].applied_last /\ ~requests[b].wrote_last
        /\ requests[a].settings # requests[b].settings
        /\ components[requests[a].comp].settings = requests[a].settings
        /\ last.op = "update" /\ last.apply_calls > 0
        /\ last.carried = requests[b].settings

\* ---------------------------------------------------------------------
\* The name is not empty and holds no whitespace character.
WhitespaceFree(name) ==
    /\ name # <<>>
    /\ \A i \in 1..Len(name) : name[i] \notin Whitespace

\* C35 - A create of any kind whose name is empty or holds a whitespace
\* character (space, tab, newline) is rejected with a validation error before
\* any store or gateway call, and every persisted component name is non-empty
\* and free of whitespace.
C35_NamesWhitespaceFree ==
    [][ /\ (last'.op = "create" /\ ~WhitespaceFree(last'.name))
            => /\ last'.result = "validation_error"
               /\ NoEffect
        /\ \A c \in CompIds :
              components'[c].exists => WhitespaceFree(components'[c].name) ]_vars

\* ---------------------------------------------------------------------
\* C36 - Every sync_instance call that returns a report has counted each
\* enabled component exactly once: synced_components plus the number of
\* error entries equals total_components, the number of enabled components,
\* whatever the kind of a component and whether or not its placement could be
\* resolved.
C36_SyncCountsEachEnabledOnce ==
    [][ (last'.op = "sync" /\ last'.result = "ok")
        => /\ last'.total_components = Cardinality(EnabledRows)
           /\ last'.synced_components + Len(last'.errors) = last'.total_components
           /\ last'.synced_components = Cardinality(EnabledRows \ last'.failed)
           /\ last'.failed \subseteq EnabledRows ]_vars

C36_Witness ==
    /\ last.op = "sync"
    /\ last.result = "ok"
    /\ last.synced_components >= 1
    /\ \E c, d \in last.failed :
         /\ components[c].type \notin KnownKinds
         /\ components[d].type \in KnownKinds
    /\ last.synced_components + Len(last.errors) = last.total_components

\* ---------------------------------------------------------------------
\* C37 - No dangling placement: in every state the sequential create, update,
\* delete and sync calls reach, every PlacementRecord references a component
\* row that exists, and once a component delete has returned no
\* PlacementRecord references the deleted component.
C37_NoDanglingPlacement ==
    [][ /\ \A g \in cluster_instances' :
              components'[g.application_component_id].exists
        /\ (last'.op = "delete" /\ last'.result = "ok")
              => /\ ~components'[last'.comp].exists
                 /\ find_cluster_instance_by_component_id(
                        cluster_instances', last'.comp) = {} ]_vars

C37_Witness ==
    /\ last.op = "delete"
    /\ last.result = "ok"
    /\ \E i \in 1..Len(last.steps) : last.steps[i] = "delete_cluster_instance"
    /\ ~components[last.comp].exists
    /\ find_cluster_instance_by_component_id(cluster_instances, last.comp) = {}

\* ---------------------------------------------------------------------
\* The request of last' went through the orchestrator of one kind with the
\* uuid of a persisted component of another kind.
OfAnotherKind ==
    /\ last'.op \in {"get", "update", "delete"}
    /\ components[last'.comp].exists
    /\ components[last'.comp].type # last'.kind

NotCalled ==
    [op |-> "enabled_field", called |-> FALSE, comp |-> 0,
     has_enabled |-> FALSE, enabled |-> FALSE,
     changed |-> FALSE, was_enabled |-> FALSE, will_be_enabled |-> FALSE,
     updates |-> 0]

InitEnabledField ==
    /\ components \in
         { rows \in [CompIds -> UNION { SeedRows(c) : c \in CompIds } \cup {NoRow}] :
             \A c \in CompIds : rows[c] \in SeedRows(c) \cup {NoRow} }
    /\ next_id = MaxComponents + 1
    /\ cluster_instances = {}
    /\ manifests = [cl \in Clusters |-> {}]
    /\ deployed = [c \in CompIds |-> "none"]
    /\ last = NotCalled
    /\ requests = [r \in Reqs |-> IdleRequest]
    /\ instances = {"i1"}
    /\ environments = {"e1"}

\* enabled_changed = update_component_enabled_field(component, enabled, repo);
\* repository.update commits the component as the helper left it.
UpdateEnabledField ==
    \E c \in CompIds, has_enabled \in BOOLEAN, enabled \in BOOLEAN :
        /\ components[c].exists
        /\ components[c].type \in {"worker", "cron"}
        /\ ~has_enabled => ~enabled
        /\ LET enabled_changed ==
                   update_component_enabled_field(components[c], has_enabled, enabled)
           IN  /\ components' = [components EXCEPT ![c] = enabled_changed.row]
               /\ last' = [op |-> "enabled_field", called |-> TRUE, comp |-> c,
                           has_enabled |-> has_enabled, enabled |-> enabled,
                           changed |-> enabled_changed.changed,
                           was_enabled |-> enabled_changed.was_enabled,
                           will_be_enabled |-> enabled_changed.will_be_enabled,
                           updates |-> enabled_changed.updates]
        /\ UNCHANGED <<next_id, cluster_instances, manifests, deployed, requests,
                       instances, environments>>

NextEnabledField == UpdateEnabledField

SpecEnabledField == InitEnabledField /\ [][NextEnabledField]_vars

\* C39 - update_component_enabled_field(component, enabled, repo), with p the
\* component's enabled value before the call, returns was_enabled = p,
\* will_be_enabled = (p if enabled is None else enabled) and
\* changed = (enabled is not None and enabled != p), leaves
\* component.enabled equal to will_be_enabled and nothing else of the
\* component changed, and calls repo.update exactly once in every case.
C39_EnabledFieldResult ==
    [][ last'.called
        => LET p == components[last'.comp].enabled IN
           /\ last'.was_enabled = p
           /\ last'.will_be_enabled
                = (IF last'.has_enabled THEN last'.enabled ELSE p)
           /\ last'.changed = (last'.has_enabled /\ last'.enabled # p)
           /\ components' = [components EXCEPT
                                ![last'.comp].enabled = last'.will_be_enabled]
           /\ last'.updates = 1 ]_vars

C39_Witness ==
    /\ last.called
    /\ ~last.has_enabled
    /\ last.was_enabled
    /\ last.will_be_enabled
    /\ ~last.changed
    /\ components[last.comp].enabled
    /\ last.updates = 1

C39_WitnessChanged ==
    /\ last.called
    /\ last.has_enabled
    /\ last.changed
    /\ last.was_enabled # last.will_be_enabled
    /\ components[last.comp].enabled = last.will_be_enabled
    /\ last.updates = 1

====
